---- MODULE Spec2Model ----
(***************************************************************************)
(* Verification model of the scoring / decision core of the indexing       *)
(* quality-assurance backend:                                              *)
(*   - DynamicRulesManager   (services/dynamic_rules_manager.py)           *)
(*   - RulesEngine           (services/rules_engine.py)                    *)
(*   - evaluate_llm_invocation_decision (api/api.py)                       *)
(*   - UnifiedConfigService  (services/unified_config_service.py)          *)
(* Sequential behaviours take one whole call per step; the two             *)
(* specifications of concurrent callers take one statement per step.       *)
(*                                                                         *)
(* Numbers.  Configuration values (thresholds, weights) are Python floats  *)
(* with at most two decimals; they are kept as integers counting           *)
(* hundredths (0.15 is 15, 50.0 is 5000).  Computed scores are exact       *)
(* rationals [n |-> numerator, d |-> denominator], d > 0.                  *)
(***************************************************************************)
EXTENDS Integers, Sequences, FiniteSets, TLC

VARIABLES
    rules,            \* DynamicRulesManager.rules: name -> [weight, threshold_value]
    thresholds,       \* DynamicRulesManager.thresholds: name -> QualityThreshold
    changes_history,  \* rows of the changes_history table, oldest first
    subscribers,      \* DynamicRulesManager._subscribers
    notifications,    \* callbacks invoked so far, oldest first
    op,               \* the operation executed by the last step, with its return value
    nops,             \* number of ConfigStore operations executed
    quality_results,  \* argument of the last evaluate_llm_invocation_decision call
    settings,         \* LLMInvocationSettings of that call
    decision,         \* its outcome: an LLMInvocationDecision, or the exception raised
    ingest,           \* ingest_content inside its LLM section: its position,
                      \* should_run_llm, llm_score, and the calls made to the judge
    content_hashes,   \* RulesEngine.content_hashes: hash -> entries, oldest first
    now,              \* the clock, in hours
    runtime_overrides,\* UnifiedConfigService.runtime_overrides
    checked_chunk,    \* argument of the last check_chunk call
    check_results,    \* its outcome: the list returned, or that it raised
    nchecks,          \* number of check_chunk calls made
    rule_results,     \* argument of the last calculate_weighted_score call
    returned_score,   \* the value it returned
    writers,          \* threads inside a mutator of the manager: the holder of
                      \* _lock, each thread's frame, the threads whose
                      \* threshold object is no longer the one in the table
    checkers,         \* threads inside check_chunk: each thread's frame, the
                      \* submissions that passed duplicate_content_detection,
                      \* and the number of calls made
    notifier          \* the thread inside the loop of _notify_subscribers: its
                      \* position, the list iterator's index, the notification
                      \* it delivers and the callbacks subscribed when it began

configVars == <<rules, thresholds, changes_history, subscribers, notifications, op, nops>>

decisionVars == <<quality_results, settings, decision, ingest>>

scoreVars == <<rule_results, returned_score>>

threadVars == <<writers, checkers, notifier>>

engineVars == <<content_hashes, now, runtime_overrides, checked_chunk, check_results, nchecks>>

vars == <<rules, thresholds, changes_history, subscribers, notifications, op, nops,
          quality_results, settings, decision, ingest,
          content_hashes, now, runtime_overrides, checked_chunk, check_results, nchecks,
          rule_results, returned_score, writers, checkers, notifier>>

-----------------------------------------------------------------------------
(* Bounds of the exploration *)

MaxOps == 3

\* longest list of check results handed to the decision function
MaxResults == 10

\* check_chunk calls per behaviour
MaxChecks == 2

\* longest list of subscribers
MaxSubscribers == 3

\* check_chunk calls made by the concurrent threads together
MaxSubmissions == 3

\* longest list of results handed to calculate_weighted_score
MaxRuleResults == 2

\* the clock stops at this hour
MaxTime == 24

\* the clock advances in steps of this many hours
TickHours == 12

-----------------------------------------------------------------------------
(* Exact rational arithmetic *)

RECURSIVE Gcd(_, _)
Gcd(a, b) == IF b = 0 THEN a ELSE Gcd(b, a % b)

Abs(x) == IF x < 0 THEN -x ELSE x

\* the rational n/d in lowest terms with a positive denominator (d # 0)
Rat(n, d) ==
    LET g == Gcd(Abs(n), Abs(d))
        sgn == IF d < 0 THEN -1 ELSE 1
    IN  [n |-> sgn * (n \div g), d |-> sgn * (d \div g)]

RInt(k) == [n |-> k, d |-> 1]

\* a configuration value kept in hundredths, as a rational
FromHundredths(v) == Rat(v, 100)

RLe(a, b) == a.n * b.d <= b.n * a.d
\* a comparison that also holds on equality
RLt_or_equal(a, b) == a.n * b.d <= b.n * a.d
RLt(a, b) == a.n * b.d < b.n * a.d
RGe(a, b) == RLe(b, a)
RGt(a, b) == RLt(b, a)
RAdd(a, b) == Rat(a.n * b.d + b.n * a.d, a.d * b.d)
RSub(a, b) == Rat(a.n * b.d - b.n * a.d, a.d * b.d)
RMul(a, b) == Rat(a.n * b.n, a.d * b.d)
\* a / b for b # 0
RDiv(a, b) == Rat(a.n * b.d, a.d * b.n)
RMin(a, b) == IF RLe(a, b) THEN a ELSE b
RMax(a, b) == IF RLe(a, b) THEN b ELSE a

-----------------------------------------------------------------------------
(* DynamicRulesManager: default tables *)

\* weight, threshold_value of _create_default_rules, in hundredths
default_rules ==
    [ empty_tags                  |-> [weight |-> 100, threshold_value |-> 100],
      tag_count_validation        |-> [weight |-> 80,  threshold_value |-> 80],
      text_quality                |-> [weight |-> 120, threshold_value |-> 70],
      stopwords_detection         |-> [weight |-> 60,  threshold_value |-> 50],
      spam_patterns               |-> [weight |-> 150, threshold_value |-> 30],
      duplicate_content_detection |-> [weight |-> 90,  threshold_value |-> 85],
      tag_text_relevance          |-> [weight |-> 110, threshold_value |-> 30],
      semantic_relevance          |-> [weight |-> 130, threshold_value |-> 40],
      domain_relevance            |-> [weight |-> 100, threshold_value |-> 50],
      tag_specificity             |-> [weight |-> 80,  threshold_value |-> 60],
      context_coherence           |-> [weight |-> 90,  threshold_value |-> 10] ]

\* None in a table of numbers: the dataclasses check no field type, so a
\* snapshot can carry it where a float is declared
NoneValue == -1

TypeError == [raised |-> "TypeError"]

QualityThreshold(cur, def, lo, hi, affects) ==
    [current_value |-> cur, default_value |-> def, min_value |-> lo,
     max_value |-> hi, affects_rules |-> affects]

\* _create_default_thresholds, in hundredths; current_value is the value
\* get_dynamic_value obtains from the unified configuration (core/config.py)
default_thresholds ==
    [ approval_quality_score_threshold |-> QualityThreshold(5000, 5000, 0, 10000, {}),
      semantic_relevance_threshold     |-> QualityThreshold(40, 15, 0, 100, {"semantic_relevance"}),
      domain_relevance_threshold       |-> QualityThreshold(40, 10, 0, 100, {"domain_relevance"}),
      tag_specificity_threshold        |-> QualityThreshold(50, 20, 0, 100, {"tag_specificity"}),
      context_coherence_threshold      |-> QualityThreshold(30, 10, 0, 100, {"context_coherence"}),
      tag_text_relevance_threshold     |-> QualityThreshold(30, 30, 0, 100, {"tag_text_relevance"}),
      spam_threshold                   |-> QualityThreshold(30, 30, 0, 100, {"spam_patterns"}),
      stopword_threshold               |-> QualityThreshold(50, 50, 0, 100, {"stopwords_detection"}),
      language_consistency_threshold   |-> QualityThreshold(80, 80, 0, 100, {"language_consistency"}),
      min_tag_count                    |-> QualityThreshold(100, 100, 0, 5000, {"tag_count_validation", "empty_tags"}),
      max_tag_count                    |-> QualityThreshold(2000, 2000, 100, 10000, {"tag_count_validation"}) ]

-----------------------------------------------------------------------------
(* DynamicRulesManager: persistence, history, notification *)

\* str(value): the text stored in the old_value and new_value columns. The
\* text of a float is its shortest round-tripping form, so two values have
\* the same text exactly when they are equal.
str(value) == [text |-> value]

\* _record_change as an UPDATE of the latest row in place of an INSERT
_record_change_in_place(hist, change_type, item_name, field_name, old_value, new_value, dbOk) ==
    LET row == [change_type |-> change_type, item_name |-> item_name,
                field_name |-> field_name, old_value |-> str(old_value),
                new_value |-> str(new_value)]
    IN  IF ~dbOk THEN hist
        ELSE IF hist = << >> THEN << row >>
        ELSE [hist EXCEPT ![Len(hist)] = row]

\* _record_change: one row appended to changes_history; a failing INSERT is
\* caught and the row is lost (dbOk = FALSE)
_record_change(hist, change_type, item_name, field_name, old_value, new_value, dbOk) ==
    IF dbOk
    THEN Append(hist, [change_type |-> change_type, item_name |-> item_name,
                       field_name |-> field_name, old_value |-> str(old_value),
                       new_value |-> str(new_value)])
    ELSE hist

\* the callbacks that raise when they are called
Raises(subscriber) == subscriber = "failing_observer"

\* one call of a subscriber, as the log keeps it
Notification(subscriber, change_type, item_name, old_value, new_value) ==
    [subscriber |-> subscriber, change_type |-> change_type, item_name |-> item_name,
     old_value |-> old_value, new_value |-> new_value, raised |-> Raises(subscriber)]

\* a notification loop without the try/except around the call: the first
\* exception ends the loop
RECURSIVE _notify_subscribers_uncaught(_, _, _, _, _, _)
_notify_subscribers_uncaught(notes, subs, change_type, item_name, old_value, new_value) ==
    IF subs = << >> THEN notes
    ELSE LET called == Append(notes, Notification(Head(subs), change_type, item_name,
                                                  old_value, new_value))
         IN  IF Raises(Head(subs))
             THEN called
             ELSE _notify_subscribers_uncaught(called, Tail(subs), change_type,
                                               item_name, old_value, new_value)

\* _notify_subscribers: every entry of the list, in list order, is called; an
\* exception of a call is caught and the loop goes on
RECURSIVE _notify_subscribers(_, _, _, _, _, _)
_notify_subscribers(notes, subs, change_type, item_name, old_value, new_value) ==
    IF subs = << >> THEN notes
    ELSE _notify_subscribers(Append(notes, Notification(Head(subs), change_type,
                                                        item_name, old_value, new_value)),
                             Tail(subs), change_type, item_name, old_value, new_value)

\* The part of the manager the mutators work on
Store == [rules |-> rules, thresholds |-> thresholds,
          changes_history |-> changes_history, notifications |-> notifications]

-----------------------------------------------------------------------------
(* DynamicRulesManager: public mutators, as store transformers               *)
(* Each returns [ret |-> return value, s |-> store after the call].          *)

\* update_threshold_value without its "no change needed" early return: an
\* update to the current value is written, recorded and notified like any other
update_threshold_value_always_writes(s, subs, threshold_name, new_value, dbOk) ==
    IF threshold_name \notin DOMAIN s.thresholds
    THEN [ret |-> FALSE, s |-> s]
    ELSE
      LET threshold == s.thresholds[threshold_name]
          old_value == threshold.current_value
      IN  IF ~(threshold.min_value <= new_value /\ new_value <= threshold.max_value)
          THEN [ret |-> FALSE, s |-> s]
          ELSE
            [ret |-> TRUE,
             s |-> [rules |->
                       [r \in DOMAIN s.rules |->
                           IF r \in threshold.affects_rules
                           THEN [s.rules[r] EXCEPT !.threshold_value = new_value]
                           ELSE s.rules[r]],
                    thresholds |->
                       [s.thresholds EXCEPT ![threshold_name].current_value = new_value],
                    changes_history |->
                       _record_change(s.changes_history, "threshold", threshold_name,
                                      "current_value", old_value, new_value, dbOk),
                    notifications |->
                       _notify_subscribers(s.notifications, subs, "threshold_update",
                                           threshold_name, old_value, new_value)]]

\* update_threshold_value without the loop over affects_rules
update_threshold_value_without_mirror(s, subs, threshold_name, new_value, dbOk) ==
    IF threshold_name \notin DOMAIN s.thresholds
    THEN [ret |-> FALSE, s |-> s]
    ELSE
      LET threshold == s.thresholds[threshold_name]
          old_value == threshold.current_value
      IN  IF old_value = new_value
          THEN [ret |-> TRUE, s |-> s]
          ELSE IF ~(threshold.min_value <= new_value /\ new_value <= threshold.max_value)
          THEN [ret |-> FALSE, s |-> s]
          ELSE
            [ret |-> TRUE,
             s |-> [rules |-> s.rules,
                    thresholds |->
                       [s.thresholds EXCEPT ![threshold_name].current_value = new_value],
                    changes_history |->
                       _record_change(s.changes_history, "threshold", threshold_name,
                                      "current_value", old_value, new_value, dbOk),
                    notifications |->
                       _notify_subscribers(s.notifications, subs, "threshold_update",
                                           threshold_name, old_value, new_value)]]

update_threshold_value(s, subs, threshold_name, new_value, dbOk) ==
    IF threshold_name \notin DOMAIN s.thresholds
    THEN [ret |-> FALSE, s |-> s]
    ELSE
      LET threshold == s.thresholds[threshold_name]
          old_value == threshold.current_value
      IN  IF old_value = new_value
          THEN [ret |-> TRUE, s |-> s]
          ELSE IF ~(threshold.min_value <= new_value /\ new_value <= threshold.max_value)
          THEN [ret |-> FALSE, s |-> s]
          ELSE
            [ret |-> TRUE,
             s |-> [rules |->
                       [r \in DOMAIN s.rules |->
                           IF r \in threshold.affects_rules
                           THEN [s.rules[r] EXCEPT !.threshold_value = new_value]
                           ELSE s.rules[r]],
                    thresholds |->
                       [s.thresholds EXCEPT ![threshold_name].current_value = new_value],
                    changes_history |->
                       _record_change(s.changes_history, "threshold", threshold_name,
                                      "current_value", old_value, new_value, dbOk),
                    notifications |->
                       _notify_subscribers(s.notifications, subs, "threshold_update",
                                           threshold_name, old_value, new_value)]]

\* update_rule_weight as a transaction: a failing database write rolls the
\* call back
update_rule_weight_transactional(s, subs, rule_name, new_weight, dbOk) ==
    IF rule_name \notin DOMAIN s.rules
    THEN [ret |-> FALSE, s |-> s]
    ELSE
      LET old_weight == s.rules[rule_name].weight
      IN  IF old_weight = new_weight
          THEN [ret |-> TRUE, s |-> s]
          ELSE IF ~(0 <= new_weight /\ new_weight <= 500)
          THEN [ret |-> FALSE, s |-> s]
          ELSE IF ~dbOk
          THEN [ret |-> FALSE, s |-> s]
          ELSE
            [ret |-> TRUE,
             s |-> [rules |-> [s.rules EXCEPT ![rule_name].weight = new_weight],
                    thresholds |-> s.thresholds,
                    changes_history |->
                       _record_change(s.changes_history, "rule", rule_name, "weight",
                                      old_weight, new_weight, dbOk),
                    notifications |->
                       _notify_subscribers(s.notifications, subs, "rule_weight_update",
                                           rule_name, old_weight, new_weight)]]

update_rule_weight(s, subs, rule_name, new_weight, dbOk) ==
    IF rule_name \notin DOMAIN s.rules
    THEN [ret |-> FALSE, s |-> s]
    ELSE
      LET old_weight == s.rules[rule_name].weight
      IN  IF old_weight = new_weight
          THEN [ret |-> TRUE, s |-> s]
          ELSE IF ~(0 <= new_weight /\ new_weight <= 500)
          THEN [ret |-> FALSE, s |-> s]
          ELSE
            [ret |-> TRUE,
             s |-> [rules |-> [s.rules EXCEPT ![rule_name].weight = new_weight],
                    thresholds |-> s.thresholds,
                    changes_history |->
                       _record_change(s.changes_history, "rule", rule_name, "weight",
                                      old_weight, new_weight, dbOk),
                    notifications |->
                       _notify_subscribers(s.notifications, subs, "rule_weight_update",
                                           rule_name, old_weight, new_weight)]]

\* reset_rule_weight: update_rule_weight to 1.0
reset_rule_weight(s, subs, rule_name, dbOk) ==
    IF rule_name \notin DOMAIN s.rules
    THEN [ret |-> FALSE, s |-> s]
    ELSE update_rule_weight(s, subs, rule_name, 100, dbOk)

\* bulk_update_rules: update_rule_weight for each update that carries a
\* weight; an update without one counts as a success
RECURSIVE bulk_update_rules(_, _, _, _, _)
bulk_update_rules(s, subs, updates, results, dbOk) ==
    IF updates = << >>
    THEN [ret |-> results, s |-> s]
    ELSE LET u == Head(updates)
             r == IF "weight" \in DOMAIN u
                  THEN update_rule_weight(s, subs, u.rule_name, u.weight, dbOk)
                  ELSE [ret |-> TRUE, s |-> s]
         IN  bulk_update_rules(r.s, subs, Tail(updates),
                               (u.rule_name :> r.ret) @@ results, dbOk)

\* reset_threshold writing the default even when it is the current value
reset_threshold_always_writes(s, subs, threshold_name, dbOk) ==
    IF threshold_name \notin DOMAIN s.thresholds
    THEN [ret |-> FALSE, s |-> s]
    ELSE update_threshold_value_always_writes(s, subs, threshold_name,
                                s.thresholds[threshold_name].default_value, dbOk)

reset_threshold(s, subs, threshold_name, dbOk) ==
    IF threshold_name \notin DOMAIN s.thresholds
    THEN [ret |-> FALSE, s |-> s]
    ELSE update_threshold_value(s, subs, threshold_name,
                                s.thresholds[threshold_name].default_value, dbOk)

\* bulk_update_thresholds: update_threshold_value for each update in turn;
\* results maps each threshold name to the outcome of its last update
RECURSIVE bulk_update_thresholds(_, _, _, _, _)
bulk_update_thresholds(s, subs, updates, results, dbOk) ==
    IF updates = << >>
    THEN [ret |-> results, s |-> s]
    ELSE LET u == Head(updates)
             r == update_threshold_value(s, subs, u.threshold_name, u.new_value, dbOk)
         IN  bulk_update_thresholds(r.s, subs, Tail(updates),
                                    (u.threshold_name :> r.ret) @@ results, dbOk)

\* import_configuration: entries are installed one by one without any
\* validation; a malformed entry raises, the exception is caught, False is
\* returned and the entries installed before it stay
RECURSIVE import_rules(_, _)
import_rules(rl, entries) ==
    IF entries = << >> THEN [ok |-> TRUE, rules |-> rl]
    ELSE LET e == Head(entries)
         IN  IF e.malformed THEN [ok |-> FALSE, rules |-> rl]
             ELSE import_rules((e.name :> e.rule) @@ rl, Tail(entries))

RECURSIVE import_thresholds(_, _)
import_thresholds(th, entries) ==
    IF entries = << >> THEN [ok |-> TRUE, thresholds |-> th]
    ELSE LET e == Head(entries)
         IN  IF e.malformed THEN [ok |-> FALSE, thresholds |-> th]
             ELSE import_thresholds((e.name :> e.threshold) @@ th, Tail(entries))

import_configuration(s, config, dbOk) ==
    LET ir == import_rules(s.rules, config.rules)
        it == IF ir.ok THEN import_thresholds(s.thresholds, config.thresholds)
              ELSE [ok |-> FALSE, thresholds |-> s.thresholds]
    IN  [ret |-> ir.ok /\ it.ok,
         s |-> [rules |-> ir.rules,
                thresholds |-> it.thresholds,
                changes_history |->
                    IF ir.ok /\ it.ok
                    THEN _record_change(s.changes_history, "system", "configuration",
                                        "import", 0, 0, dbOk)
                    ELSE s.changes_history,
                notifications |-> s.notifications]]

\* the loop of calculate_weighted_score: <<total_score, total_weight>>, over
\* the results whose check_name is a rule of the manager
RECURSIVE score_totals(_, _)
score_totals(rl, results) ==
    IF results = << >> THEN << RInt(0), RInt(0) >>
    ELSE LET rest == score_totals(rl, Tail(results))
             rule_name == Head(results).check_name
         IN  IF rule_name \in DOMAIN rl
             THEN LET weight == FromHundredths(rl[rule_name].weight)
                  IN  << RAdd(rest[1], RMul(Head(results).confidence_score, weight)),
                         RAdd(rest[2], weight) >>
             ELSE rest

\* no call made yet
NoScore == [n |-> 0, d |-> 0]

\* (total_score / total_weight) if total_weight > 0 else 0.0
calculate_weighted_score(rl, results) ==
    LET t == score_totals(rl, results)
    IN  IF RGt(t[2], RInt(0)) THEN RDiv(t[1], t[2]) ELSE RInt(0)

-----------------------------------------------------------------------------
(* evaluate_llm_invocation_decision (api/api.py)                            *)

\* RulesEngine.get_expected_check_names
expected_check_names ==
    << "empty_tags", "tag_count_validation", "text_quality", "stopwords_detection",
       "spam_patterns", "duplicate_content_detection", "tag_text_relevance",
       "semantic_relevance", "domain_relevance", "tag_specificity",
       "context_coherence" >>

\* LLMInvocationSettings with its field defaults (thresholds in hundredths)
DefaultSettings ==
    [mode |-> "binary", percentage_threshold |-> 8500, weighted_threshold |-> 80,
     range_min_threshold |-> 7000, range_max_threshold |-> 8000,
     rule_weights |-> [x \in {} |-> 100]]

\* default_weights of initialize_llm_invocation_settings: 1.0 for every rule
default_weights ==
    [x \in {expected_check_names[i] : i \in 1..Len(expected_check_names)} |-> 100]

NoDecision == [raised |-> "none"]

ZeroDivisionError == [raised |-> "ZeroDivisionError"]

LLMInvocationDecision(should_invoke, confidence, mode, summary) ==
    [raised |-> "no", should_invoke_llm |-> should_invoke, confidence |-> confidence,
     mode_used |-> mode, rules_summary |-> summary]

\* a count that takes every result that is not a Fail for passed
RECURSIVE passed_count_not_failed(_)
passed_count_not_failed(results) ==
    IF results = << >> THEN 0
    ELSE (IF Head(results).status # "fail" THEN 1 ELSE 0)
         + passed_count_not_failed(Tail(results))

\* sum(1 for result in quality_results if result.status == FlagStatus.PASS)
RECURSIVE passed_count(_)
passed_count(results) ==
    IF results = << >> THEN 0
    ELSE (IF Head(results).status = "pass" THEN 1 ELSE 0) + passed_count(Tail(results))

\* settings.rule_weights.get(result.check_name, 1.0)
rule_weight(weights, check_name) ==
    IF check_name \in DOMAIN weights THEN weights[check_name] ELSE 100

\* the weighted-mode loop: <<total_weight, passed_weight>>, in hundredths
RECURSIVE weight_sums(_, _)
weight_sums(results, weights) ==
    IF results = << >> THEN <<0, 0>>
    ELSE LET rest == weight_sums(Tail(results), weights)
             w == rule_weight(weights, Head(results).check_name)
         IN  <<rest[1] + w,
               rest[2] + (IF Head(results).status = "pass" THEN w ELSE 0)>>

\* (passed_rules / total_rules) * 100 if total_rules > 0 else 0
pass_percentage(results) ==
    IF Len(results) > 0 THEN Rat(passed_count(results) * 100, Len(results)) ELSE RInt(0)

\* passed_weight / total_weight if total_weight > 0 else 0
weighted_score(results, weights) ==
    LET ws == weight_sums(results, weights)
    IN  IF ws[1] > 0 THEN Rat(ws[2], ws[1]) ELSE RInt(0)

evaluate_llm_invocation_decision(results, st) ==
    LET total_rules == Len(results)
        passed_rules == passed_count(results)
        summary == [total_rules |-> total_rules, passed_rules |-> passed_rules,
                    failed_rules |-> total_rules - passed_rules]
        pp == pass_percentage(results)
    IN  CASE st.mode = "binary" ->
               LLMInvocationDecision(passed_rules = total_rules,
                                     IF passed_rules = total_rules THEN RInt(1) ELSE RInt(0),
                                     st.mode, summary)
          [] st.mode = "percentage" ->
               LET thr == FromHundredths(st.percentage_threshold)
               IN  IF thr.n = 0 THEN ZeroDivisionError
                   ELSE LLMInvocationDecision(RGe(pp, thr),
                                              RMin(RDiv(pp, thr), RInt(1)),
                                              st.mode, summary)
          [] st.mode = "weighted" ->
               LET thr == FromHundredths(st.weighted_threshold)
                   score == weighted_score(results, st.rule_weights)
               IN  IF thr.n = 0 THEN ZeroDivisionError
                   ELSE LLMInvocationDecision(RGe(score, thr),
                                              RMin(RDiv(score, thr), RInt(1)),
                                              st.mode, summary)
          [] st.mode = "range" ->
               LET lo == FromHundredths(st.range_min_threshold)
                   hi == FromHundredths(st.range_max_threshold)
                   range_width == RSub(hi, lo)
                   distance_from_min == RSub(pp, lo)
                   half == RDiv(range_width, RInt(2))
               IN  IF RLt(pp, lo)
                   THEN LLMInvocationDecision(FALSE, RInt(1), st.mode, summary)
                   ELSE IF RGt(pp, hi)
                   THEN LLMInvocationDecision(FALSE, RInt(1), st.mode, summary)
                   ELSE IF half.n = 0 THEN ZeroDivisionError
                   ELSE LLMInvocationDecision(TRUE,
                                              RMin(RInt(1), RDiv(distance_from_min, half)),
                                              st.mode, summary)
          [] OTHER ->
               LLMInvocationDecision(passed_rules = total_rules,
                                     IF passed_rules = total_rules THEN RInt(1) ELSE RInt(0),
                                     st.mode, summary)

-----------------------------------------------------------------------------
(* Text                                                                      *)
(* A str is a sequence of tokens: a word (a maximal run of \w characters), a *)
(* run of whitespace, or a punctuation mark.  No two words and no two runs   *)
(* of whitespace are adjacent in an input text.                              *)

WhitespaceTokens == {" ", "  "}

PunctuationTokens == {".", "!"}

IsSpace(t) == t \in WhitespaceTokens

IsPunct(t) == t \in PunctuationTokens

IsWord(t) == ~IsSpace(t) /\ ~IsPunct(t)

\* str.lower(), on the words of the explored texts
lower_token(t) ==
    CASE t = "Quarterly" -> "quarterly"
      [] t = "Budget" -> "budget"
      [] t = "Security" -> "security"
      [] OTHER -> t

lower(text) == [i \in 1..Len(text) |-> lower_token(text[i])]

RECURSIVE lstrip(_)
lstrip(text) ==
    IF text # << >> /\ IsSpace(Head(text)) THEN lstrip(Tail(text)) ELSE text

RECURSIVE rstrip(_)
rstrip(text) ==
    IF text # << >> /\ IsSpace(text[Len(text)])
    THEN rstrip(SubSeq(text, 1, Len(text) - 1))
    ELSE text

\* str.strip()
strip(text) == rstrip(lstrip(text))

\* len(str): the number of characters
RECURSIVE len(_)
len(text) == IF text = << >> THEN 0 ELSE Len(Head(text)) + len(Tail(text))

\* the characters of a text, as one string
RECURSIVE join(_)
join(text) == IF text = << >> THEN "" ELSE Head(text) \o join(Tail(text))

\* re.findall(r'\b\w+\b', text)
words_of(text) == SelectSeq(text, IsWord)

\* str.isdigit(), on the words of the explored texts
isdigit(w) == w \in {"42"}

\* re.sub(r'\s+', ' ', text)
collapse_whitespace(text) ==
    [i \in 1..Len(text) |-> IF IsSpace(text[i]) THEN " " ELSE text[i]]

\* re.sub(r'[^\w\s]', '', text)
remove_punctuation(text) == SelectSeq(text, LAMBDA t : ~IsPunct(t))

\* str.split(): the maximal runs of non-whitespace characters
RECURSIVE split_from(_, _)
split_from(text, current) ==
    IF text = << >>
    THEN (IF current = "" THEN << >> ELSE << current >>)
    ELSE IF IsSpace(Head(text))
    THEN (IF current = "" THEN << >> ELSE << current >>) \o split_from(Tail(text), "")
    ELSE split_from(Tail(text), current \o Head(text))

split(text) == split_from(text, "")

\* RulesEngine._hash_content: md5 of the normalized text; the digest is
\* represented by the normalized text it is computed from
_hash_content(text) ==
    join(remove_punctuation(collapse_whitespace(lower(strip(text)))))

\* re.sub(r'[^\w\s]', ' ', text) followed by re.sub(r'\s+', ' ', text): every
\* run of whitespace and punctuation becomes one space
RECURSIVE squeeze(_)
squeeze(text) ==
    IF text = << >> THEN << >>
    ELSE IF IsWord(Head(text)) THEN << Head(text) >> \o squeeze(Tail(text))
    ELSE IF Len(text) > 1 /\ ~IsWord(text[2]) THEN squeeze(Tail(text))
    ELSE << " " >> \o squeeze(Tail(text))

\* RulesEngine._preprocess_text
_preprocess_text(text) ==
    IF text = << >> THEN << >> ELSE strip(squeeze(lower(text)))

-----------------------------------------------------------------------------
(* RulesEngine: results and thresholds                                       *)

\* RulesEngine.hash_retention_hours
hash_retention_hours == 24

ValidationError == [raised |-> "ValidationError"]

\* a result built without the range validation of confidence_score
QualityCheckResult_unvalidated(check_name, status, confidence_score, error) ==
    [raised |-> "no", check_name |-> check_name, status |-> status,
     confidence_score |-> confidence_score, error |-> error]

\* QualityCheckResult(...): confidence_score is Field(ge=0.0, le=1.0), so the
\* constructor raises on a score outside [0, 1]; error tells whether
\* check_metadata carries an "error" entry
QualityCheckResult(check_name, status, confidence_score, error) ==
    IF RLe(RInt(0), confidence_score) /\ RLe(confidence_score, RInt(1))
    THEN [raised |-> "no", check_name |-> check_name, status |-> status,
          confidence_score |-> confidence_score, error |-> error]
    ELSE ValidationError

\* the configuration a check reads: the tables of the DynamicRulesManager and
\* the runtime_overrides of the UnifiedConfigService
Config(rl, th, overrides) == [rules |-> rl, thresholds |-> th, runtime_overrides |-> overrides]

\* _get_dynamic_threshold answering from the values the manager held when the
\* engine was constructed
_get_dynamic_threshold_loaded_once(cfg, threshold_name, fallback_value) ==
    IF threshold_name \in DOMAIN default_thresholds
    THEN default_thresholds[threshold_name].current_value
    ELSE IF threshold_name \in DOMAIN default_rules
    THEN default_rules[threshold_name].threshold_value
    ELSE IF threshold_name \in DOMAIN cfg.runtime_overrides
    THEN cfg.runtime_overrides[threshold_name]
    ELSE fallback_value

\* RulesEngine._get_dynamic_threshold, in hundredths
_get_dynamic_threshold(cfg, threshold_name, fallback_value) ==
    IF threshold_name \in DOMAIN cfg.thresholds
    THEN cfg.thresholds[threshold_name].current_value
    ELSE IF threshold_name \in DOMAIN cfg.rules
    THEN cfg.rules[threshold_name].threshold_value
    ELSE IF threshold_name \in DOMAIN cfg.runtime_overrides
    THEN cfg.runtime_overrides[threshold_name]
    ELSE fallback_value

\* RulesEngine.generic_stopwords
generic_stopwords ==
    { "document", "file", "content", "text", "information", "data",
      "report", "summary", "overview", "details", "description",
      "general", "misc", "miscellaneous", "other", "various",
      "company", "business", "corporate", "organization",
      "important", "urgent", "critical", "high", "low", "medium",
      "new", "old", "recent", "current", "updated", "latest",
      "final", "draft", "version", "revision", "edit",
      "meeting", "call", "discussion", "conversation",
      "email", "message", "communication", "note", "memo",
      "project", "task", "work", "job", "assignment",
      "process", "procedure", "method", "approach",
      "team", "group", "department", "division",
      "customer", "client", "user", "person", "people",
      "product", "service", "solution", "system",
      "policy", "guideline", "rule", "requirement",
      "review", "analysis", "evaluation", "assessment",
      "planning", "strategy", "goal", "objective",
      "training", "education", "learning", "knowledge",
      "support", "help", "assistance", "guidance",
      "management", "admin", "administration", "operational",
      "technical", "functional",
      "and", "or", "but", "the", "a", "an", "is", "are", "was", "were",
      "for", "with", "about", "from", "into", "through", "during",
      "before", "after", "above", "below", "up", "down", "out", "off",
      "over", "under", "again", "further", "then", "once" }

\* the terms of RulesEngine.domain_knowledge, all domains together
domain_terms ==
    { "api", "database", "server", "client", "application", "software",
      "hardware", "network", "security", "backup", "maintenance",
      "employee", "staff", "personnel", "human resources", "hr",
      "benefits", "payroll", "performance", "evaluation",
      "compliance", "regulation", "legal", "contract", "agreement",
      "terms", "conditions", "privacy", "confidential" }

\* RulesEngine.domain_stopwords lists the same terms
domain_stopwords == domain_terms

all_stopwords == generic_stopwords \cup domain_stopwords

\* number of elements of a sequence that satisfy a test
count_if(seq, Test(_)) == Len(SelectSeq(seq, Test))

-----------------------------------------------------------------------------
(* RulesEngine: checks 1 to 4                                                *)

\* an empty_tags check that looks for blank tags only
_check_empty_tags_blank_only(chunk) ==
    IF \E i \in 1..Len(chunk.tags) : strip(chunk.tags[i]) = << >>
    THEN QualityCheckResult("empty_tags", "fail", Rat(2, 10), FALSE)
    ELSE QualityCheckResult("empty_tags", "pass", RInt(1), FALSE)

_check_empty_tags(chunk) ==
    IF chunk.tags = << >>
    THEN QualityCheckResult("empty_tags", "fail", RInt(0), FALSE)
    ELSE IF \E i \in 1..Len(chunk.tags) : strip(chunk.tags[i]) = << >>
    THEN QualityCheckResult("empty_tags", "fail", Rat(2, 10), FALSE)
    ELSE QualityCheckResult("empty_tags", "pass", RInt(1), FALSE)

\* tag_count < min_tag_count and tag_count > max_tag_count raise TypeError when
\* the threshold is None; nothing in the check catches it
_check_tag_count(chunk, cfg) ==
    LET tag_count == Len(chunk.tags)
        min_tag_count == _get_dynamic_threshold(cfg, "min_tag_count", 100)
        max_tag_count == _get_dynamic_threshold(cfg, "max_tag_count", 2000)
    IN  IF min_tag_count = NoneValue
        THEN TypeError
        ELSE IF tag_count * 100 < min_tag_count
        THEN QualityCheckResult("tag_count_validation", "fail", Rat(3, 10), FALSE)
        ELSE IF max_tag_count = NoneValue
        THEN TypeError
        ELSE IF tag_count * 100 > max_tag_count
        THEN QualityCheckResult("tag_count_validation", "fail", Rat(6, 10), FALSE)
        ELSE QualityCheckResult("tag_count_validation", "pass", RInt(1), FALSE)

_check_text_quality(chunk, cfg) ==
    LET text == strip(chunk.document_text)
        text_length == len(text)
        min_text_length == _get_dynamic_threshold(cfg, "min_text_length", 5000)
        max_text_length == _get_dynamic_threshold(cfg, "max_text_length", 1000000)
        words == words_of(lower(text))
        meaningful_words == SelectSeq(words, LAMBDA w : Len(w) > 2 /\ ~isdigit(w))
        min_meaningful_words == _get_dynamic_threshold(cfg, "min_meaningful_words", 500)
    IN  IF text_length * 100 < min_text_length
        THEN QualityCheckResult("text_quality", "fail", Rat(1, 10), FALSE)
        ELSE IF text_length * 100 > max_text_length
        THEN QualityCheckResult("text_quality", "fail", Rat(7, 10), FALSE)
        ELSE IF Len(meaningful_words) * 100 < min_meaningful_words
        THEN QualityCheckResult("text_quality", "fail", Rat(4, 10), FALSE)
        ELSE QualityCheckResult("text_quality", "pass", RInt(1), FALSE)

\* a tag counted by _check_generic_stopwords: a stopword, or a multi-word tag
\* more than 60% of whose words are stopwords
is_stopword_tag(tag) ==
    LET normalized == strip(lower(tag))
        tag_words == split(normalized)
        stopword_count == count_if(tag_words, LAMBDA w : w \in all_stopwords)
    IN  \/ join(normalized) \in all_stopwords
        \/ /\ \E i \in 1..Len(normalized) : IsSpace(normalized[i])
           /\ stopword_count * 10 > 6 * Len(tag_words)

_check_generic_stopwords(chunk, cfg) ==
    IF chunk.tags = << >>
    THEN QualityCheckResult("stopwords_detection", "pass", RInt(1), FALSE)
    ELSE
      LET stopword_matches == count_if(chunk.tags, is_stopword_tag)
          stopword_ratio == Rat(stopword_matches, Len(chunk.tags))
          stopword_threshold ==
              FromHundredths(_get_dynamic_threshold(cfg, "stopword_threshold", 50))
      IN  IF RGt(stopword_ratio, stopword_threshold)
          THEN QualityCheckResult("stopwords_detection", "fail",
                                  RMax(Rat(2, 10), RSub(RInt(1), stopword_ratio)), FALSE)
          ELSE QualityCheckResult("stopwords_detection", "pass",
                                  RSub(RInt(1), stopword_ratio), FALSE)

-----------------------------------------------------------------------------
(* RulesEngine: checks 5 and 6                                               *)

\* matches of r'first\s*(s1|s2|...)' (spaces: WhitespaceTokens) or of
\* r'first second' (spaces: one blank): the places where the word first, a
\* run of whitespace and one of the second words follow one another
phrase_matches(text, first, spaces, seconds) ==
    Cardinality({i \in 1..(Len(text) - 2) :
                    text[i] = first /\ text[i + 1] \in spaces /\ text[i + 2] \in seconds})

\* words of the explored texts in which r'(\w+)\1{3,}' finds a match
repeated_chunk_words == {"zzzz"}

\* words of the explored texts in which r'asdf|qwerty|123456|abcdef' finds a match
keyboard_mashing_words == {"asdf", "qwerty", "123456", "abcdef"}

\* r'(.{10,})\1{2,}': a run of tokens at least 10 characters long that
\* occurs three times in a row
has_repeated_phrase(text) ==
    \E k \in 1..(Len(text) \div 3) :
        \E i \in 1..(Len(text) - 3 * k + 1) :
            /\ SubSeq(text, i, i + k - 1) = SubSeq(text, i + k, i + 2 * k - 1)
            /\ SubSeq(text, i, i + k - 1) = SubSeq(text, i + 2 * k, i + 3 * k - 1)
            /\ len(SubSeq(text, i, i + k - 1)) >= 10

\* r'^(.)\1{20,}': the text begins with 21 or more copies of one character
has_character_spam(text) ==
    text # << >> /\ Head(text) \in repeated_chunk_words /\ Len(Head(text)) >= 21

\* len(spam_matches): the matches of the compiled_spam_patterns, in order
spam_match_count(text) ==
    phrase_matches(text, "lorem", {" "}, {"ipsum"})
    + phrase_matches(text, "test", WhitespaceTokens, {"document", "content", "text", "data"})
    + phrase_matches(text, "sample", WhitespaceTokens, {"document", "content", "text", "data"})
    + phrase_matches(text, "placeholder", WhitespaceTokens, {"text", "content"})
    + phrase_matches(text, "dummy", WhitespaceTokens, {"text", "content", "data"})
    + count_if(text, LAMBDA t : t \in repeated_chunk_words)
    + (IF has_repeated_phrase(text) THEN 1 ELSE 0)
    + (IF has_character_spam(text) THEN 1 ELSE 0)
    + count_if(text, LAMBDA t : t \in keyboard_mashing_words)

\* Counter(words).most_common(1)[0][1]
max_freq(words) ==
    LET freq(w) == count_if(words, LAMBDA x : x = w)
    IN  CHOOSE f \in 1..Len(words) :
            /\ \E i \in 1..Len(words) : freq(words[i]) = f
            /\ \A i \in 1..Len(words) : freq(words[i]) <= f

_check_spam_patterns(chunk, cfg) ==
    LET text == lower(chunk.document_text)
        spam_matches == spam_match_count(text)
        words == split(text)
    IN  IF spam_matches > 0
        THEN QualityCheckResult("spam_patterns", "fail",
                                RMax(Rat(1, 10), RSub(RInt(1), Rat(3 * spam_matches, 10))),
                                FALSE)
        ELSE IF Len(words) > 10 /\ RGt(Rat(max_freq(words), Len(words)), Rat(3, 10))
        THEN QualityCheckResult("spam_patterns", "fail",
                                RMax(Rat(3, 10),
                                     RSub(RInt(1), Rat(max_freq(words), Len(words)))),
                                FALSE)
        ELSE QualityCheckResult("spam_patterns", "pass", RInt(1), FALSE)

\* a cleaning that evicts nothing
clean_old_hashes_keeps_all(hashes, current_time) == hashes

\* the stored entries that survive the cleaning of _check_duplicate_content:
\* those with timestamp > cutoff_time, and no key left without entries
clean_old_hashes(hashes, current_time) ==
    LET cutoff_time == current_time - hash_retention_hours
        kept(h) == SelectSeq(hashes[h], LAMBDA e : e.timestamp > cutoff_time)
    IN  [h \in {k \in DOMAIN hashes : kept(k) # << >>} |-> kept(h)]

\* _check_duplicate_content storing the hash before it tests for duplicates:
\* a failing submission is recorded too
_check_duplicate_content_storing_first(chunk, cfg, hashes, current_time) ==
    LET content_hash == _hash_content(chunk.document_text)
        cleaned == clean_old_hashes(hashes, current_time)
        max_duplicate_content_per_hour ==
            _get_dynamic_threshold(cfg, "max_duplicate_content_per_hour", 500)
        entry == [timestamp |-> current_time, connector |-> chunk.source_connector]
        failing == /\ content_hash \in DOMAIN cleaned
                   /\ Len(cleaned[content_hash]) * 100 >= max_duplicate_content_per_hour
    IN  [result |-> IF failing
                    THEN QualityCheckResult("duplicate_content_detection", "fail",
                                            Rat(1, 10), FALSE)
                    ELSE QualityCheckResult("duplicate_content_detection", "pass",
                                            RInt(1), FALSE),
         content_hashes |->
             IF content_hash \in DOMAIN cleaned
             THEN [cleaned EXCEPT ![content_hash] = Append(@, entry)]
             ELSE cleaned @@ (content_hash :> << entry >>)]

\* returns the result and the content_hashes the call leaves behind
_check_duplicate_content(chunk, cfg, hashes, current_time) ==
    LET content_hash == _hash_content(chunk.document_text)
        cleaned == clean_old_hashes(hashes, current_time)
        max_duplicate_content_per_hour ==
            _get_dynamic_threshold(cfg, "max_duplicate_content_per_hour", 500)
        entry == [timestamp |-> current_time, connector |-> chunk.source_connector]
    IN  IF /\ content_hash \in DOMAIN cleaned
           /\ Len(cleaned[content_hash]) * 100 >= max_duplicate_content_per_hour
        THEN [result |-> QualityCheckResult("duplicate_content_detection", "fail",
                                            Rat(1, 10), FALSE),
              content_hashes |-> cleaned]
        ELSE [result |-> QualityCheckResult("duplicate_content_detection", "pass",
                                            RInt(1), FALSE),
              content_hashes |->
                  IF content_hash \in DOMAIN cleaned
                  THEN [cleaned EXCEPT ![content_hash] = Append(@, entry)]
                  ELSE cleaned @@ (content_hash :> << entry >>)]

-----------------------------------------------------------------------------
(* RulesEngine: checks 7 to 11                                               *)

\* the pairs (word, shorter string) of the explored words and terms in which
\* the second is a proper substring of the first
proper_substrings == { <<"cybersecurity", "security">> }

\* needle in haystack, for a needle without whitespace
contains(haystack, needle) ==
    \E i \in 1..Len(haystack) :
        haystack[i] = needle \/ <<haystack[i], needle>> \in proper_substrings

elements(seq) == {seq[i] : i \in 1..Len(seq)}

RECURSIVE rsum(_)
rsum(seq) == IF seq = << >> THEN RInt(0) ELSE RAdd(Head(seq), rsum(Tail(seq)))

\* np.mean of a non-empty sequence
mean(seq) == RDiv(rsum(seq), RInt(Len(seq)))

\* np.max of a non-empty sequence
maximum(seq) ==
    seq[CHOOSE i \in 1..Len(seq) : \A j \in 1..Len(seq) : RLe(seq[j], seq[i])]

\* twice the relevance the loop of _check_tag_text_relevance adds for a tag
tag_relevance_halves(tag, text_lower) ==
    LET text_words == elements(words_of(text_lower))
        tag_words == elements(words_of(lower(tag)))
    IN  IF tag_words \cap text_words # {} THEN 2
        ELSE IF \E w \in tag_words : Len(w) > 3 /\ contains(text_lower, w) THEN 1
        ELSE 0

RECURSIVE relevant_tags_halves(_, _)
relevant_tags_halves(tags, text_lower) ==
    IF tags = << >> THEN 0
    ELSE tag_relevance_halves(Head(tags), text_lower)
         + relevant_tags_halves(Tail(tags), text_lower)

_check_tag_text_relevance(chunk, cfg) ==
    IF chunk.tags = << >>
    THEN QualityCheckResult("tag_text_relevance", "pass", RInt(1), FALSE)
    ELSE
      LET text_lower == lower(chunk.document_text)
          total_tags == Len(chunk.tags)
          threshold == FromHundredths(
              _get_dynamic_threshold(cfg, "tag_text_relevance_threshold", 30))
          relevance_score == Rat(relevant_tags_halves(chunk.tags, text_lower), 2 * total_tags)
      IN  IF RLt(relevance_score, threshold)
          THEN QualityCheckResult("tag_text_relevance", "fail", relevance_score, FALSE)
          ELSE QualityCheckResult("tag_text_relevance", "pass", relevance_score, FALSE)

\* cosine similarities a TF-IDF computation may return: 0, 1/2, and a value
\* that rounding has pushed above 1
SimilarityValues == { RInt(0), Rat(1, 2), Rat(101, 100) }

\* what a TF-IDF computation over the index set D does: it raises, or it
\* returns one similarity for each index; a check with nothing to compare
\* returns before it calls the library
TfidfOutcomes(D) ==
    IF D = {}
    THEN { [raised |-> FALSE, similarities |-> << >>] }
    ELSE { [raised |-> TRUE, similarities |-> << >>] }
         \cup { [raised |-> FALSE, similarities |-> f] : f \in [D -> SimilarityValues] }

\* the except branch of a check: a result built inside the try that the
\* constructor rejected is replaced by the handler's result
caught(result, handler_result) == IF result.raised # "no" THEN handler_result ELSE result

\* tfidf: what TfidfVectorizer and cosine_similarity do with the texts, either
\* an exception or the similarity of the text to each tag
_check_semantic_relevance(chunk, cfg, tfidf) ==
    IF chunk.tags = << >>
    THEN QualityCheckResult("semantic_relevance", "pass", RInt(1), FALSE)
    ELSE
      LET text == _preprocess_text(chunk.document_text)
          tag_texts == [i \in 1..Len(chunk.tags) |-> _preprocess_text(chunk.tags[i])]
          on_error == QualityCheckResult("semantic_relevance", "fail", Rat(3, 10), TRUE)
          threshold == FromHundredths(
              _get_dynamic_threshold(cfg, "semantic_relevance_threshold", 15))
      IN  IF strip(text) = << >> \/ \A i \in 1..Len(tag_texts) : strip(tag_texts[i]) = << >>
          THEN caught(QualityCheckResult("semantic_relevance", "fail", Rat(1, 10), FALSE),
                      on_error)
          ELSE IF tfidf.raised THEN on_error
          ELSE
            LET avg_similarity == mean(tfidf.similarities)
                max_similarity == maximum(tfidf.similarities)
                semantic_score == RAdd(RMul(avg_similarity, Rat(6, 10)),
                                       RMul(max_similarity, Rat(4, 10)))
            IN  caught(IF RLt(semantic_score, threshold)
                       THEN QualityCheckResult("semantic_relevance", "fail",
                                               semantic_score, FALSE)
                       ELSE QualityCheckResult("semantic_relevance", "pass",
                                               semantic_score, FALSE),
                       on_error)

\* any(term in tag_lower for term in knowledge['terms']), over all domains
has_domain_match(tag) == \E term \in domain_terms : contains(lower(tag), term)

_check_domain_relevance(chunk, cfg) ==
    IF chunk.tags = << >>
    THEN QualityCheckResult("domain_relevance", "pass", RInt(1), FALSE)
    ELSE
      LET tag_domain_matches == count_if(chunk.tags, has_domain_match)
          domain_relevance_score == Rat(tag_domain_matches, Len(chunk.tags))
          threshold == FromHundredths(
              _get_dynamic_threshold(cfg, "domain_relevance_threshold", 10))
      IN  IF RLt(domain_relevance_score, threshold)
          THEN QualityCheckResult("domain_relevance", "fail", domain_relevance_score, FALSE)
          ELSE QualityCheckResult("domain_relevance", "pass", domain_relevance_score, FALSE)

\* the specificity score of one tag
specificity_score(tag) ==
    LET tag_lower == strip(lower(tag))
    IN  IF join(tag_lower) \in all_stopwords THEN RInt(0)
        ELSE IF Len(split(tag_lower)) > 1 THEN Rat(8, 10)
        ELSE IF join(tag_lower) \in domain_terms THEN Rat(7, 10)
        ELSE IF len(tag_lower) > 8 THEN Rat(6, 10)
        ELSE IF len(tag_lower) > 5 THEN Rat(5, 10)
        ELSE Rat(3, 10)

_check_tag_specificity(chunk, cfg) ==
    IF chunk.tags = << >>
    THEN QualityCheckResult("tag_specificity", "pass", RInt(1), FALSE)
    ELSE
      LET specificity_scores == [i \in 1..Len(chunk.tags) |-> specificity_score(chunk.tags[i])]
          avg_specificity == mean(specificity_scores)
          threshold == FromHundredths(
              _get_dynamic_threshold(cfg, "tag_specificity_threshold", 50))
      IN  IF RLt(avg_specificity, threshold)
          THEN QualityCheckResult("tag_specificity", "fail", avg_specificity, FALSE)
          ELSE QualityCheckResult("tag_specificity", "pass", avg_specificity, FALSE)

\* the index pairs i < j of the loop over range(len(valid_tags))
tag_pairs(n) == {p \in (1..n) \X (1..n) : p[1] < p[2]}

RECURSIVE pair_sum(_, _)
pair_sum(pairs, similarities) ==
    IF pairs = {} THEN RInt(0)
    ELSE LET p == CHOOSE q \in pairs : TRUE
         IN  RAdd(similarities[p], pair_sum(pairs \ {p}, similarities))

\* tfidf: an exception, or the pairwise similarities of the tag texts
_check_context_coherence(chunk, cfg, tfidf) ==
    IF Len(chunk.tags) < 2
    THEN QualityCheckResult("context_coherence", "pass", RInt(1), FALSE)
    ELSE
      LET tag_texts == [i \in 1..Len(chunk.tags) |-> _preprocess_text(chunk.tags[i])]
          valid_tags == SelectSeq(tag_texts, LAMBDA t : strip(t) # << >>)
          on_error == QualityCheckResult("context_coherence", "fail", Rat(3, 10), TRUE)
          threshold == FromHundredths(
              _get_dynamic_threshold(cfg, "context_coherence_threshold", 10))
          pairs == tag_pairs(Len(valid_tags))
      IN  IF Len(valid_tags) < 2
          THEN caught(QualityCheckResult("context_coherence", "pass", RInt(1), FALSE),
                      on_error)
          ELSE IF tfidf.raised THEN on_error
          ELSE
            LET avg_coherence ==
                    RDiv(pair_sum(pairs, tfidf.similarities), RInt(Cardinality(pairs)))
            IN  caught(IF RLt(avg_coherence, threshold)
                       THEN QualityCheckResult("context_coherence", "fail",
                                               avg_coherence, FALSE)
                       ELSE QualityCheckResult("context_coherence", "pass",
                                               avg_coherence, FALSE),
                       on_error)

-----------------------------------------------------------------------------
(* RulesEngine.check_chunk                                                   *)

\* the result appended when the number of results is not the expected one
rules_engine_consistency_check ==
    QualityCheckResult("rules_engine_consistency_check", "fail", RInt(0), FALSE)

\* the removal of duplicates by check_name, first occurrence kept
RECURSIVE unique_results(_, _)
unique_results(results, seen_checks) ==
    IF results = << >> THEN << >>
    ELSE IF Head(results).check_name \in seen_checks
    THEN unique_results(Tail(results), seen_checks)
    ELSE << Head(results) >>
         \o unique_results(Tail(results), seen_checks \cup {Head(results).check_name})

\* the VALIDATION part of check_chunk, from the collected results to the
\* returned list: the consistency result is appended when the number of
\* results is not 11, then duplicates by check_name are removed
validated_results(results) ==
    unique_results(IF Len(results) # 11
                   THEN Append(results, rules_engine_consistency_check)
                   ELSE results, {})

\* the outcomes of a call, one for each behaviour of the TF-IDF library in
\* _check_semantic_relevance and in _check_context_coherence: whether the call
\* raised, the list it returns otherwise, and the content_hashes it leaves
\* behind
check_chunk(chunk, cfg, hashes, current_time) ==
    LET empty_tags == _check_empty_tags(chunk)
        tag_count == _check_tag_count(chunk, cfg)
        text_quality == _check_text_quality(chunk, cfg)
        stopwords == _check_generic_stopwords(chunk, cfg)
        spam == _check_spam_patterns(chunk, cfg)
        duplicate == _check_duplicate_content(chunk, cfg, hashes, current_time)
        tag_text == _check_tag_text_relevance(chunk, cfg)
        domain == _check_domain_relevance(chunk, cfg)
        specificity == _check_tag_specificity(chunk, cfg)
        outcome(semantic, coherence) ==
            LET appended == << empty_tags, tag_count, text_quality, stopwords, spam,
                               duplicate.result, tag_text,
                               _check_semantic_relevance(chunk, cfg, semantic),
                               domain, specificity,
                               _check_context_coherence(chunk, cfg, coherence) >>
                raising == {i \in 1..Len(appended) : appended[i].raised # "no"}
            IN  IF raising # {}
                THEN [raised |-> TRUE, results |-> << >>,
                      content_hashes |-> IF \E i \in raising : i < 6
                                         THEN hashes ELSE duplicate.content_hashes]
                ELSE [raised |-> FALSE,
                      results |-> validated_results(appended),
                      content_hashes |-> duplicate.content_hashes]
    IN  { outcome(semantic, coherence) :
              semantic \in TfidfOutcomes(1..Len(chunk.tags)),
              coherence \in TfidfOutcomes(tag_pairs(Len(chunk.tags))) }

-----------------------------------------------------------------------------
(* UnifiedConfigService                                                      *)

\* runtime_overrides after _load_current_config, for the names the checks ask for
default_runtime_overrides ==
    [ approval_quality_score_threshold |-> 5000,
      spam_threshold |-> 30,
      stopword_threshold |-> 50,
      context_coherence_threshold |-> 30,
      min_tag_count |-> 100,
      max_tag_count |-> 2000,
      tag_text_relevance_threshold |-> 30,
      semantic_relevance_threshold |-> 40,
      domain_relevance_threshold |-> 40,
      tag_specificity_threshold |-> 50,
      language_consistency_threshold |-> 80 ]

\* update.name.replace("_weight", "") for the names that end with "_weight"
weight_key_rule == [empty_tags_weight |-> "empty_tags"]

\* UnifiedConfigService.update_threshold: sets the override, then syncs the
\* DynamicRulesManager when it knows the threshold or the rule
update_threshold(s, subs, overrides, name, value, dbOk) ==
    LET synced == IF name \in DOMAIN s.thresholds
                  THEN update_threshold_value(s, subs, name, value, dbOk).s
                  ELSE s
        weighted == IF name \in DOMAIN weight_key_rule
                       /\ weight_key_rule[name] \in DOMAIN synced.rules
                    THEN update_rule_weight(synced, subs, weight_key_rule[name],
                                            value, dbOk).s
                    ELSE synced
    IN  [ret |-> TRUE, s |-> weighted,
         runtime_overrides |->
             [n \in DOMAIN overrides \cup {name} |->
                 IF n = name THEN value ELSE overrides[n]]]

-----------------------------------------------------------------------------
(* Inputs explored *)

\* (threshold name, value in hundredths) pairs handed to update_threshold_value:
\* for a threshold mirrored by two rules and for one whose affects_rules names
\* no existing rule, a value below the bounds, inside them, on a bound, equal
\* to the current value, and above the bounds; and an unknown name
ThresholdNameArgs == {"min_tag_count", "language_consistency_threshold",
                      "no_such_threshold"}

ThresholdCallArgs ==
    ({"min_tag_count", "language_consistency_threshold"} \X {-10, 80, 100, 6000})
        \cup {<<"no_such_threshold", 80>>}

\* (rule name, weight in hundredths) pairs handed to update_rule_weight
WeightCallArgs ==
    ({"empty_tags"} \X {-50, 0, 100, 500, 600}) \cup {<<"no_such_rule", 100>>}

\* rule names handed to reset_rule_weight
RuleNameArgs == {"empty_tags", "no_such_rule"}

\* update lists handed to bulk_update_rules: an out-of-range weight after an
\* accepted one, and an update that carries no weight
BulkRuleArgs ==
    { << [rule_name |-> "empty_tags", weight |-> 200],
         [rule_name |-> "text_quality", weight |-> 501] >>,
      << [rule_name |-> "text_quality"] >> }

BulkArgs ==
    { << [threshold_name |-> "min_tag_count", new_value |-> 200],
         [threshold_name |-> "language_consistency_threshold", new_value |-> 150] >>,
      << [threshold_name |-> "min_tag_count", new_value |-> 200],
         [threshold_name |-> "min_tag_count", new_value |-> 300] >> }

RuleEntry(name, w, tv) ==
    [malformed |-> FALSE, name |-> name, rule |-> [weight |-> w, threshold_value |-> tv]]

ThresholdEntry(name, cur, def, lo, hi, affects) ==
    [malformed |-> FALSE, name |-> name,
     threshold |-> QualityThreshold(cur, def, lo, hi, affects)]

MalformedEntry == [malformed |-> TRUE]

\* snapshots handed to import_configuration: a re-import of in-range values,
\* a snapshot whose threshold lies outside its own bounds, one with an
\* over-weight rule, one with a malformed second threshold entry, and one
\* whose min_tag_count has no current_value (null)
ImportArgs ==
    { [rules |-> << >>,
       thresholds |-> << ThresholdEntry("min_tag_count", NoneValue, 100, 0, 5000,
                                        {"tag_count_validation", "empty_tags"}) >>],
      [rules |-> << >>,
       thresholds |-> << ThresholdEntry("language_consistency_threshold", 60, 80, 0, 100,
                                        {"language_consistency"}) >>],
      [rules |-> << >>,
       thresholds |-> << ThresholdEntry("language_consistency_threshold", 6000, 80, 0, 100,
                                        {"language_consistency"}) >>],
      [rules |-> << RuleEntry("empty_tags", 700, 100) >>,
       thresholds |-> << >>],
      [rules |-> << >>,
       thresholds |-> << ThresholdEntry("min_tag_count", 300, 100, 0, 5000,
                                        {"tag_count_validation", "empty_tags"}),
                         MalformedEntry >>] }

CallbackArgs == {"observer"}

\* documents: no text, a text below the minimum length, a report, the same
\* report in another case, spacing and punctuation, a text of spam phrases
\* and keyboard mashing, and a text that repeats one word
EmptyText == << >>

ShortText == << "Quarterly", " ", "budget", " ", "42" >>

ReportText ==
    << "Quarterly", " ", "budget", " ", "review", " ", "covers", " ", "network",
       " ", "cybersecurity", " ", "spending", "." >>

ReportTextVariant ==
    << " ", "quarterly", "  ", "Budget", " ", "review", " ", "covers", " ", "network",
       " ", "cybersecurity", " ", "spending", "!" >>

SpamText == << "lorem", " ", "ipsum", " ", "test", " ", "data", " ", "qwerty" >>

RepetitiveText ==
    << "budget", " ", "review", " ", "budget", " ", "network", " ", "budget", " ",
       "covers", " ", "budget", " ", "spending", " ", "budget", " ", "quarterly",
       " ", "budget" >>

ChunkIngestRequest(document_text, tags) ==
    [document_text |-> document_text, tags |-> tags, source_connector |-> "SharePoint"]

NoChunk == [document_text |-> << >>, tags |-> << >>, source_connector |-> ""]

\* chunks handed to check_chunk
ChunkArgs ==
    { ChunkIngestRequest(EmptyText, << >>),
      ChunkIngestRequest(ShortText, << <<"data">> >>),
      ChunkIngestRequest(ReportText, << <<"Security">>, <<"budget">> >>),
      ChunkIngestRequest(ReportTextVariant, << <<"quarterly", " ", "budget">> >>),
      ChunkIngestRequest(SpamText, << <<" ">> >>),
      ChunkIngestRequest(RepetitiveText, << <<"cybersecurity">> >>) }

\* a request that passes the validators of ChunkIngestRequest
ValidChunk == ChunkIngestRequest(ReportTextVariant, << <<"quarterly", " ", "budget">> >>)

\* (name, value in hundredths) pairs handed to UnifiedConfigService.update_threshold,
\* which stores any number: a maximum of one occurrence, and of none
OverrideArgs ==
    { <<"max_duplicate_content_per_hour", 100>>,
      <<"max_duplicate_content_per_hour", 0>> }

\* name of the i-th result of a list: the catalog order, then a check the
\* rule_weights of no settings value mentions
ResultName(i) ==
    IF i <= Len(expected_check_names) THEN expected_check_names[i] ELSE "custom_check"

\* result lists: any length up to MaxResults, any subset passing, the others
\* all failing or all flagged with a warning
ResultList(n, passing, other) ==
    [i \in 1..n |-> [check_name |-> ResultName(i),
                     status |-> IF i \in passing THEN "pass" ELSE other]]

\* results handed to calculate_weighted_score: of two rules of the manager
\* with different weights, and of a check it has no rule for
RuleResultArgs ==
    { [check_name |-> "empty_tags", confidence_score |-> RInt(1)],
      [check_name |-> "empty_tags", confidence_score |-> RInt(0)],
      [check_name |-> "tag_count_validation", confidence_score |-> Rat(1, 2)],
      [check_name |-> "custom_check", confidence_score |-> RInt(1)] }

\* rule_weights that leave most names to the 1.0 default and give one rule no
\* weight at all
skewed_weights ==
    [empty_tags |-> 0, tag_count_validation |-> 200, text_quality |-> 50]

\* settings values: per mode, the thresholds of the tests and of the shipped
\* defaults, a zero and a negative threshold, and ranges that are wide, empty
\* and inverted
SettingsArgs ==
    { DefaultSettings }
    \cup { [DefaultSettings EXCEPT !.mode = "percentage", !.percentage_threshold = t] :
              t \in {-8500, 0, 8000, 8500} }
    \cup { [DefaultSettings EXCEPT !.mode = "weighted", !.weighted_threshold = t,
                                   !.rule_weights = w] :
              t \in {0, 70, 80},
              w \in {DefaultSettings.rule_weights, default_weights, skewed_weights} }
    \cup { [DefaultSettings EXCEPT !.mode = "range", !.range_min_threshold = r[1],
                                   !.range_max_threshold = r[2]] :
              r \in {<<6000, 8000>>, <<7000, 8000>>, <<8000, 8000>>, <<8000, 6000>>} }

\* the lists ingest_content hands to evaluate_llm_invocation_decision: the 11
\* results of the rules engine, any number of them passing, and the single
\* basic_content_check of the fallback taken when the rules engine raised
IngestResultArgs ==
    { ResultList(11, 1..k, other) : k \in 0..11, other \in {"fail", "warning"} }
    \cup { << [check_name |-> "basic_content_check", status |-> "pass"] >> }

\* what llm_judge.check_chunk does: it raises, or it returns a result with a
\* confidence_score (hundredths)
JudgeOutcomes == {-1, 0, 55, 90}

\* ingest_content before its LLM section
IdleIngest == [pc |-> "idle", should_run_llm |-> FALSE, llm_score |-> 0, judge_calls |-> 0]

\* the threads that call into the manager and the engine at the same time
Threads == {1, 2}

\* (name, value in hundredths) pairs the threads hand to update_threshold_value
WriterUpdateArgs == {<<"min_tag_count", 200>>, <<"min_tag_count", 300>>}

\* the threshold entries of the snapshot a thread hands to import_configuration
WriterImportArgs ==
    << ThresholdEntry("min_tag_count", 400, 100, 0, 5000,
                      {"tag_count_validation", "empty_tags"}),
       ThresholdEntry("language_consistency_threshold", 60, 80, 0, 100,
                      {"language_consistency"}) >>

\* callbacks handed to subscribe_to_changes and unsubscribe_from_changes: one
\* that returns and one that raises
SubscriberArgs == {"observer", "failing_observer"}

\* callbacks subscribed around a notification: one that only observes, and
\* one that unsubscribes itself when it is called
NotifierCallbackArgs == {"observer", "one_shot_observer"}

\* the callbacks that call unsubscribe_from_changes(themselves) when called
Unsubscribes(subscriber) == subscriber = "one_shot_observer"

\* no notification loop has begun
IdleNotifier == [pc |-> "idle", index |-> 0, item_name |-> "none", old_value |-> 0,
                 new_value |-> 0, subscribed |-> << >>]

\* a thread outside any mutator
IdleWriter ==
    [pc |-> "idle", kind |-> "none", name |-> "none", value |-> 0, old_value |-> 0,
     affects_rules |-> {}, entries |-> << >>, ret |-> FALSE]

\* a thread outside check_chunk
IdleChecker ==
    [pc |-> "idle", chunk |-> NoChunk, content_hash |-> << >>, current_time |-> 0,
     keys |-> << >>, filtered |-> << >>, ret |-> "none"]

-----------------------------------------------------------------------------
(* Initial state: the manager after construction with the default tables,   *)
(* and the RulesEngine subscribed (RulesEngine.__init__)                    *)

Init ==
    /\ rules = default_rules
    /\ thresholds = default_thresholds
    /\ changes_history = << >>
    /\ subscribers = << "rules_engine" >>
    /\ notifications = << >>
    /\ op = [kind |-> "init"]
    /\ nops = 0
    /\ quality_results = << >>
    /\ settings = DefaultSettings
    /\ decision = NoDecision
    /\ ingest = IdleIngest
    /\ content_hashes = [h \in {} |-> << >>]
    /\ now = 0
    /\ runtime_overrides = default_runtime_overrides
    /\ checked_chunk = NoChunk
    /\ check_results = [raised |-> FALSE, results |-> << >>]
    /\ nchecks = 0
    /\ rule_results = << >>
    /\ returned_score = NoScore
    /\ notifier = IdleNotifier
    /\ writers = [lock |-> 0, frames |-> [t \in Threads |-> IdleWriter], orphaned |-> {}]
    /\ checkers = [frames |-> [t \in Threads |-> IdleChecker], passed |-> << >>,
                   calls |-> 0]

Commit(r) ==
    /\ rules' = r.s.rules
    /\ thresholds' = r.s.thresholds
    /\ changes_history' = r.s.changes_history
    /\ notifications' = r.s.notifications
    /\ nops' = nops + 1

UpdateThresholdValue ==
    \E call \in ThresholdCallArgs, dbOk \in BOOLEAN :
        LET r == update_threshold_value(Store, subscribers, call[1], call[2], dbOk)
        IN  /\ nops < MaxOps
            /\ Commit(r)
            /\ op' = [kind |-> "update_threshold_value", name |-> call[1],
                      value |-> call[2], ret |-> r.ret]
            /\ UNCHANGED subscribers
            /\ UNCHANGED <<decisionVars, engineVars, scoreVars, threadVars>>

UpdateRuleWeight ==
    \E call \in WeightCallArgs, dbOk \in BOOLEAN :
        LET r == update_rule_weight(Store, subscribers, call[1], call[2], dbOk)
        IN  /\ nops < MaxOps
            /\ Commit(r)
            /\ op' = [kind |-> "update_rule_weight", name |-> call[1],
                      value |-> call[2], ret |-> r.ret]
            /\ UNCHANGED subscribers
            /\ UNCHANGED <<decisionVars, engineVars, scoreVars, threadVars>>

ResetThreshold ==
    \E name \in ThresholdNameArgs, dbOk \in BOOLEAN :
        LET r == reset_threshold(Store, subscribers, name, dbOk)
        IN  /\ nops < MaxOps
            /\ Commit(r)
            /\ op' = [kind |-> "reset_threshold", name |-> name, ret |-> r.ret]
            /\ UNCHANGED subscribers
            /\ UNCHANGED <<decisionVars, engineVars, scoreVars, threadVars>>

BulkUpdateThresholds ==
    \E updates \in BulkArgs, dbOk \in BOOLEAN :
        LET r == bulk_update_thresholds(Store, subscribers, updates, << >>, dbOk)
        IN  /\ nops < MaxOps
            /\ Commit(r)
            /\ op' = [kind |-> "bulk_update_thresholds", updates |-> updates,
                      ret |-> r.ret]
            /\ UNCHANGED subscribers
            /\ UNCHANGED <<decisionVars, engineVars, scoreVars, threadVars>>

ResetRuleWeight ==
    \E name \in RuleNameArgs, dbOk \in BOOLEAN :
        LET r == reset_rule_weight(Store, subscribers, name, dbOk)
        IN  /\ nops < MaxOps
            /\ Commit(r)
            /\ op' = [kind |-> "reset_rule_weight", name |-> name, ret |-> r.ret]
            /\ UNCHANGED subscribers
            /\ UNCHANGED <<decisionVars, engineVars, scoreVars, threadVars>>

BulkUpdateRules ==
    \E updates \in BulkRuleArgs, dbOk \in BOOLEAN :
        LET r == bulk_update_rules(Store, subscribers, updates, << >>, dbOk)
        IN  /\ nops < MaxOps
            /\ Commit(r)
            /\ op' = [kind |-> "bulk_update_rules", updates |-> updates,
                      ret |-> r.ret]
            /\ UNCHANGED subscribers
            /\ UNCHANGED <<decisionVars, engineVars, scoreVars, threadVars>>

ImportConfiguration ==
    \E config \in ImportArgs, dbOk \in BOOLEAN :
        LET r == import_configuration(Store, config, dbOk)
        IN  /\ nops < MaxOps
            /\ Commit(r)
            /\ op' = [kind |-> "import_configuration", config |-> config,
                      ret |-> r.ret]
            /\ UNCHANGED subscribers
            /\ UNCHANGED <<decisionVars, engineVars, scoreVars, threadVars>>

SubscribeToChanges ==
    \E callback \in CallbackArgs :
        /\ nops < MaxOps
        /\ Len(subscribers) < 2
        /\ subscribers' = Append(subscribers, callback)
        /\ op' = [kind |-> "subscribe_to_changes", name |-> callback]
        /\ nops' = nops + 1
        /\ UNCHANGED <<rules, thresholds, changes_history, notifications>>
        /\ UNCHANGED <<decisionVars, engineVars, scoreVars, threadVars>>

NextConfig ==
    \/ UpdateThresholdValue
    \/ UpdateRuleWeight
    \/ ResetThreshold
    \/ BulkUpdateThresholds
    \/ ResetRuleWeight
    \/ BulkUpdateRules
    \/ ImportConfiguration
    \/ SubscribeToChanges

Spec == Init /\ [][NextConfig]_vars

-----------------------------------------------------------------------------
(* The decision function applied once to every explored input *)

Evaluate ==
    /\ decision = NoDecision
    /\ \E n \in 0..MaxResults, st \in SettingsArgs, other \in {"fail", "warning"} :
        \E passing \in SUBSET (1..n) :
            /\ quality_results' = ResultList(n, passing, other)
            /\ settings' = st
            /\ decision' = evaluate_llm_invocation_decision(quality_results', st)
            /\ UNCHANGED <<ingest, configVars, engineVars, scoreVars, threadVars>>

NextDecision == Evaluate

SpecDecision == Init /\ [][NextDecision]_vars

-----------------------------------------------------------------------------
(* The rules engine, its clock and its configuration                         *)

CheckChunkOf(chunks) ==
    /\ nchecks < MaxChecks
    /\ \E c \in chunks :
        \E r \in check_chunk(c, Config(rules, thresholds, runtime_overrides),
                             content_hashes, now) :
            /\ checked_chunk' = c
            /\ check_results' = [raised |-> r.raised, results |-> r.results]
            /\ content_hashes' = r.content_hashes
            /\ nchecks' = nchecks + 1
            /\ UNCHANGED <<now, runtime_overrides, configVars, decisionVars, scoreVars, threadVars>>

CheckChunk == CheckChunkOf(ChunkArgs)

\* check_chunk on a request that passes the validators of ChunkIngestRequest
CheckValidChunk == CheckChunkOf({ValidChunk})

Tick ==
    /\ now + TickHours <= MaxTime
    /\ now' = now + TickHours
    /\ UNCHANGED <<content_hashes, runtime_overrides, checked_chunk, check_results, nchecks,
                   configVars, decisionVars, scoreVars, threadVars>>

UnifiedUpdateThreshold ==
    \E call \in OverrideArgs, dbOk \in BOOLEAN :
        LET r == update_threshold(Store, subscribers, runtime_overrides,
                                  call[1], call[2], dbOk)
        IN  /\ rules' = r.s.rules
            /\ thresholds' = r.s.thresholds
            /\ changes_history' = r.s.changes_history
            /\ notifications' = r.s.notifications
            /\ runtime_overrides' = r.runtime_overrides
            /\ op' = [kind |-> "update_threshold", name |-> call[1],
                      value |-> call[2], ret |-> r.ret]
            /\ UNCHANGED <<subscribers, nops, content_hashes, now, checked_chunk,
                           check_results, nchecks, decisionVars, scoreVars, threadVars>>

NextEngine ==
    \/ CheckChunk
    \/ Tick
    \/ UnifiedUpdateThreshold

SpecEngine == Init /\ [][NextEngine]_vars

-----------------------------------------------------------------------------
(* The weighted score over the weights of the manager *)

CalculateWeightedScore ==
    /\ returned_score = NoScore
    /\ \E n \in 0..MaxRuleResults :
        \E results \in [1..n -> RuleResultArgs] :
            /\ rule_results' = results
            /\ returned_score' = calculate_weighted_score(rules, results)
            /\ op' = [kind |-> "calculate_weighted_score"]
            /\ UNCHANGED <<rules, thresholds, changes_history, subscribers,
                           notifications, nops>>
            /\ UNCHANGED <<decisionVars, engineVars, threadVars>>

NextScore ==
    \/ UpdateRuleWeight
    \/ CalculateWeightedScore

SpecScore == Init /\ [][NextScore]_vars

-----------------------------------------------------------------------------
(* Subscribing, unsubscribing and updating *)

\* subscribe_to_changes: the callback is appended, whether or not it is in
\* the list already
SubscribeCallback ==
    \E callback \in SubscriberArgs :
        /\ nops < MaxOps
        /\ Len(subscribers) < MaxSubscribers
        /\ subscribers' = Append(subscribers, callback)
        /\ op' = [kind |-> "subscribe_to_changes", name |-> callback]
        /\ nops' = nops + 1
        /\ UNCHANGED <<rules, thresholds, changes_history, notifications>>
        /\ UNCHANGED <<decisionVars, engineVars, scoreVars, threadVars>>

\* list.remove: the list without the first occurrence of the callback
RECURSIVE remove(_, _)
remove(list, callback) ==
    IF list = << >> THEN << >>
    ELSE IF Head(list) = callback THEN Tail(list)
    ELSE << Head(list) >> \o remove(Tail(list), callback)

\* unsubscribe_from_changes
UnsubscribeFromChanges ==
    \E callback \in SubscriberArgs :
        /\ nops < MaxOps
        /\ subscribers' = IF \E i \in 1..Len(subscribers) : subscribers[i] = callback
                          THEN remove(subscribers, callback)
                          ELSE subscribers
        /\ op' = [kind |-> "unsubscribe_from_changes", name |-> callback]
        /\ nops' = nops + 1
        /\ UNCHANGED <<rules, thresholds, changes_history, notifications>>
        /\ UNCHANGED <<decisionVars, engineVars, scoreVars, threadVars>>

NextSubscribers ==
    \/ SubscribeCallback
    \/ UnsubscribeFromChanges
    \/ UpdateThresholdValue

SpecSubscribers == Init /\ [][NextSubscribers]_vars

-----------------------------------------------------------------------------
(* Concurrent writers of the manager.  A step is one statement group of a    *)
(* mutator run by one thread; update_threshold_value runs inside             *)
(* "with self._lock", import_configuration takes no lock.                    *)

WriterFrame(t) == writers.frames[t]

WriterStoreUnchanged == UNCHANGED <<rules, thresholds, changes_history, notifications>>

WriterOthersUnchanged ==
    UNCHANGED <<subscribers, nops, checkers, notifier, decisionVars, engineVars, scoreVars>>

\* update_threshold_value: the thread enters "with self._lock"
EnterUpdateThresholdValue ==
    \E t \in Threads, call \in WriterUpdateArgs :
        /\ WriterFrame(t).pc = "idle"
        /\ writers.lock = 0
        /\ writers' = [writers EXCEPT
                          !.lock = t,
                          !.frames[t] = [IdleWriter EXCEPT
                                            !.pc = "validate",
                                            !.kind = "update_threshold_value",
                                            !.name = call[1], !.value = call[2]]]
        /\ op' = [kind |-> "enter_update_threshold_value", thread |-> t]
        /\ WriterStoreUnchanged
        /\ WriterOthersUnchanged

\* the lookup, the "no change needed" return and the range test; threshold
\* now refers to the object in the table
ValidateThresholdValue ==
    \E t \in Threads :
        LET f == WriterFrame(t)
            return(ret) == [writers EXCEPT !.lock = 0,
                                           !.frames[t].pc = "done",
                                           !.frames[t].ret = ret]
        IN  /\ f.pc = "validate"
            /\ writers' =
                 IF f.name \notin DOMAIN thresholds
                 THEN return(FALSE)
                 ELSE LET threshold == thresholds[f.name]
                      IN  IF threshold.current_value = f.value
                          THEN return(TRUE)
                          ELSE IF ~(threshold.min_value <= f.value
                                    /\ f.value <= threshold.max_value)
                          THEN return(FALSE)
                          ELSE [writers EXCEPT
                                   !.frames[t].pc = "apply",
                                   !.frames[t].old_value = threshold.current_value,
                                   !.frames[t].affects_rules = threshold.affects_rules,
                                   !.orphaned = @ \ {t}]
            /\ op' = [kind |-> "validate_threshold_value", thread |-> t]
            /\ WriterStoreUnchanged
            /\ WriterOthersUnchanged

\* threshold.current_value = new_value, on the object the thread looked up,
\* and the loop over threshold.affects_rules
ApplyThresholdValue ==
    \E t \in Threads :
        LET f == WriterFrame(t)
        IN  /\ f.pc = "apply"
            /\ thresholds' = IF t \in writers.orphaned
                             THEN thresholds
                             ELSE [thresholds EXCEPT ![f.name].current_value = f.value]
            /\ rules' = [r \in DOMAIN rules |->
                            IF r \in f.affects_rules
                            THEN [rules[r] EXCEPT !.threshold_value = f.value]
                            ELSE rules[r]]
            /\ writers' = [writers EXCEPT !.frames[t].pc = "record"]
            /\ op' = [kind |-> "apply_threshold_value", thread |-> t]
            /\ UNCHANGED <<changes_history, notifications>>
            /\ WriterOthersUnchanged

\* self._record_change("threshold", ...)
RecordThresholdChange ==
    \E t \in Threads, dbOk \in BOOLEAN :
        LET f == WriterFrame(t)
        IN  /\ f.pc = "record"
            /\ changes_history' = _record_change(changes_history, "threshold", f.name,
                                                 "current_value", f.old_value, f.value,
                                                 dbOk)
            /\ writers' = [writers EXCEPT !.frames[t].pc = "notify"]
            /\ op' = [kind |-> "record_threshold_change", thread |-> t]
            /\ UNCHANGED <<rules, thresholds, notifications>>
            /\ WriterOthersUnchanged

\* self._notify_subscribers("threshold_update", ...), return True, and the
\* end of "with self._lock"
NotifyThresholdUpdate ==
    \E t \in Threads :
        LET f == WriterFrame(t)
        IN  /\ f.pc = "notify"
            /\ notifications' = _notify_subscribers(notifications, subscribers,
                                                    "threshold_update", f.name,
                                                    f.old_value, f.value)
            /\ writers' = [writers EXCEPT !.lock = 0,
                                          !.frames[t].pc = "done",
                                          !.frames[t].ret = TRUE]
            /\ op' = [kind |-> "notify_threshold_update", thread |-> t]
            /\ UNCHANGED <<rules, thresholds, changes_history>>
            /\ WriterOthersUnchanged

\* import_configuration: the thread starts the loop over config["thresholds"]
EnterImportConfiguration ==
    \E t \in Threads :
        /\ WriterFrame(t).pc = "idle"
        /\ writers' = [writers EXCEPT
                          !.frames[t] = [IdleWriter EXCEPT
                                            !.pc = "install",
                                            !.kind = "import_configuration",
                                            !.entries = WriterImportArgs]]
        /\ op' = [kind |-> "enter_import_configuration", thread |-> t]
        /\ WriterStoreUnchanged
        /\ WriterOthersUnchanged

\* one round of the loop: self.thresholds[threshold.name] = threshold.  A
\* thread that looked the old object up and has not assigned to it yet is
\* left with an object that is no longer in the table.
InstallThreshold ==
    \E t \in Threads :
        LET f == WriterFrame(t)
            e == Head(f.entries)
        IN  /\ f.pc = "install"
            /\ IF e.malformed
               THEN /\ writers' = [writers EXCEPT !.frames[t].pc = "done",
                                                  !.frames[t].ret = FALSE]
                    /\ UNCHANGED thresholds
               ELSE /\ thresholds' = (e.name :> e.threshold) @@ thresholds
                    /\ writers' =
                         [writers EXCEPT
                            !.frames[t].entries = Tail(f.entries),
                            !.frames[t].pc = IF Tail(f.entries) = << >>
                                             THEN "record_import" ELSE "install",
                            !.orphaned = @ \cup {u \in Threads \ {t} :
                                                    /\ WriterFrame(u).pc = "apply"
                                                    /\ WriterFrame(u).name = e.name}]
            /\ op' = [kind |-> "install_threshold", thread |-> t]
            /\ UNCHANGED <<rules, changes_history, notifications>>
            /\ WriterOthersUnchanged

\* self._record_change("system", "configuration", "import", ...), return True
RecordImport ==
    \E t \in Threads, dbOk \in BOOLEAN :
        /\ WriterFrame(t).pc = "record_import"
        /\ changes_history' = _record_change(changes_history, "system", "configuration",
                                             "import", 0, 0, dbOk)
        /\ writers' = [writers EXCEPT !.frames[t].pc = "done", !.frames[t].ret = TRUE]
        /\ op' = [kind |-> "record_import", thread |-> t]
        /\ UNCHANGED <<rules, thresholds, notifications>>
        /\ WriterOthersUnchanged

NextWriters ==
    \/ EnterUpdateThresholdValue
    \/ ValidateThresholdValue
    \/ ApplyThresholdValue
    \/ RecordThresholdChange
    \/ NotifyThresholdUpdate
    \/ EnterImportConfiguration
    \/ InstallThreshold
    \/ RecordImport

SpecWriters == Init /\ [][NextWriters]_vars

-----------------------------------------------------------------------------
(* Concurrent check_chunk calls on one RulesEngine.  A step is one statement *)
(* of _check_duplicate_content run by one thread; the checks that do not     *)
(* touch content_hashes run within the first step.  No statement of the      *)
(* engine takes a lock.                                                      *)

CheckerFrame(t) == checkers.frames[t]

CheckerOthersUnchanged ==
    UNCHANGED <<now, runtime_overrides, checked_chunk, check_results, nchecks,
                configVars, decisionVars, scoreVars, writers, notifier>>

\* list(self.content_hashes.keys())
RECURSIVE keys_list(_)
keys_list(S) ==
    IF S = {} THEN << >>
    ELSE LET k == CHOOSE x \in S : TRUE IN << k >> \o keys_list(S \ {k})

\* self.content_hashes[hash_key] of a defaultdict(list): a missing key is
\* inserted with an empty list
defaultdict_get(hashes, hash_key) ==
    IF hash_key \in DOMAIN hashes THEN hashes ELSE hashes @@ (hash_key :> << >>)

\* the statement after one round of the cleaning loop
next_round(f) ==
    [f EXCEPT !.keys = Tail(f.keys),
              !.pc = IF Tail(f.keys) = << >> THEN "check" ELSE "clean_read"]

\* content_hash, current_time, cutoff_time and the key list of the loop
EnterCheckDuplicateContent ==
    \E t \in Threads :
        LET keys == keys_list(DOMAIN content_hashes)
        IN  /\ CheckerFrame(t).pc = "idle"
            /\ checkers.calls < MaxSubmissions
            /\ checkers' =
                 [checkers EXCEPT
                    !.calls = @ + 1,
                    !.frames[t] =
                        [IdleChecker EXCEPT
                            !.pc = IF keys = << >> THEN "check" ELSE "clean_read",
                            !.chunk = ValidChunk,
                            !.content_hash = _hash_content(ValidChunk.document_text),
                            !.current_time = now,
                            !.keys = keys]]
            /\ UNCHANGED content_hashes
            /\ CheckerOthersUnchanged

\* the list comprehension over self.content_hashes[hash_key]
CleanRead ==
    \E t \in Threads :
        LET f == CheckerFrame(t)
            hash_key == Head(f.keys)
            cutoff_time == f.current_time - hash_retention_hours
            read == defaultdict_get(content_hashes, hash_key)
        IN  /\ f.pc = "clean_read"
            /\ content_hashes' = read
            /\ checkers' =
                 [checkers EXCEPT
                    !.frames[t].filtered =
                        SelectSeq(read[hash_key], LAMBDA e : e.timestamp > cutoff_time),
                    !.frames[t].pc = "clean_write"]
            /\ CheckerOthersUnchanged

\* self.content_hashes[hash_key] = [...]
CleanWrite ==
    \E t \in Threads :
        LET f == CheckerFrame(t)
            hash_key == Head(f.keys)
        IN  /\ f.pc = "clean_write"
            /\ content_hashes' =
                 [defaultdict_get(content_hashes, hash_key) EXCEPT ![hash_key] = f.filtered]
            /\ checkers' = [checkers EXCEPT !.frames[t].pc = "clean_test"]
            /\ CheckerOthersUnchanged

\* if not self.content_hashes[hash_key]
CleanTest ==
    \E t \in Threads :
        LET f == CheckerFrame(t)
            hash_key == Head(f.keys)
            read == defaultdict_get(content_hashes, hash_key)
        IN  /\ f.pc = "clean_test"
            /\ content_hashes' = read
            /\ checkers' =
                 [checkers EXCEPT
                    !.frames[t] = IF read[hash_key] = << >>
                                  THEN [f EXCEPT !.pc = "clean_del"]
                                  ELSE next_round(f)]
            /\ CheckerOthersUnchanged

\* del self.content_hashes[hash_key]: KeyError when the key is gone; the
\* exception leaves _check_duplicate_content and check_chunk
CleanDel ==
    \E t \in Threads :
        LET f == CheckerFrame(t)
            hash_key == Head(f.keys)
        IN  /\ f.pc = "clean_del"
            /\ IF hash_key \in DOMAIN content_hashes
               THEN /\ content_hashes' =
                         [h \in DOMAIN content_hashes \ {hash_key} |-> content_hashes[h]]
                    /\ checkers' = [checkers EXCEPT !.frames[t] = next_round(f)]
               ELSE /\ UNCHANGED content_hashes
                    /\ checkers' = [checkers EXCEPT !.frames[t].pc = "idle",
                                                    !.frames[t].ret = "KeyError"]
            /\ CheckerOthersUnchanged

\* if content_hash in self.content_hashes: ... recent_duplicates >=
\* max_duplicate_content_per_hour: return the Fail result
CheckForDuplicates ==
    \E t \in Threads :
        LET f == CheckerFrame(t)
            max_duplicate_content_per_hour ==
                _get_dynamic_threshold(Config(rules, thresholds, runtime_overrides),
                                       "max_duplicate_content_per_hour", 500)
        IN  /\ f.pc = "check"
            /\ checkers' =
                 [checkers EXCEPT
                    !.frames[t] =
                        IF /\ f.content_hash \in DOMAIN content_hashes
                           /\ Len(content_hashes[f.content_hash]) * 100
                                 >= max_duplicate_content_per_hour
                        THEN [f EXCEPT !.pc = "idle", !.ret = "fail"]
                        ELSE [f EXCEPT !.pc = "store"]]
            /\ UNCHANGED content_hashes
            /\ CheckerOthersUnchanged

\* self.content_hashes[content_hash].append(...), return the Pass result
StoreHash ==
    \E t \in Threads :
        LET f == CheckerFrame(t)
            entry == [timestamp |-> f.current_time, connector |-> f.chunk.source_connector]
        IN  /\ f.pc = "store"
            /\ content_hashes' =
                 [defaultdict_get(content_hashes, f.content_hash)
                    EXCEPT ![f.content_hash] = Append(@, entry)]
            /\ checkers' =
                 [checkers EXCEPT
                    !.frames[t].pc = "idle",
                    !.frames[t].ret = "pass",
                    !.passed = Append(@, [content_hash |-> f.content_hash,
                                          timestamp |-> f.current_time])]
            /\ CheckerOthersUnchanged

\* the clock, while threads are inside check_chunk
CheckerTick ==
    /\ now + TickHours <= MaxTime
    /\ now' = now + TickHours
    /\ UNCHANGED <<content_hashes, runtime_overrides, checked_chunk, check_results,
                   nchecks, configVars, decisionVars, scoreVars, threadVars>>

NextCheckers ==
    \/ EnterCheckDuplicateContent
    \/ CleanRead
    \/ CleanWrite
    \/ CleanTest
    \/ CleanDel
    \/ CheckForDuplicates
    \/ StoreHash
    \/ CheckerTick

SpecCheckers == Init /\ [][NextCheckers]_vars

-----------------------------------------------------------------------------
(* The rules engine over a configuration that snapshots were imported into   *)

NextImportedEngine ==
    \/ ImportConfiguration
    \/ CheckValidChunk

SpecImportedEngine == Init /\ [][NextImportedEngine]_vars

-----------------------------------------------------------------------------
(* _notify_subscribers, one iteration of its loop per step, while callbacks  *)
(* are subscribed and unsubscribed                                           *)

\* subscribe_to_changes from any thread: it takes no lock
ThreadSubscribe ==
    /\ Len(subscribers) < MaxSubscribers
    /\ \E callback \in NotifierCallbackArgs :
        /\ subscribers' = Append(subscribers, callback)
        /\ UNCHANGED <<rules, thresholds, changes_history, notifications, op, nops,
                       decisionVars, engineVars, scoreVars, threadVars>>

\* unsubscribe_from_changes from any thread: it takes no lock
ThreadUnsubscribe ==
    \E callback \in NotifierCallbackArgs :
        /\ \E i \in 1..Len(subscribers) : subscribers[i] = callback
        /\ subscribers' = remove(subscribers, callback)
        /\ UNCHANGED <<rules, thresholds, changes_history, notifications, op, nops,
                       decisionVars, engineVars, scoreVars, threadVars>>

\* update_threshold_value up to its call of _notify_subscribers: the value is
\* assigned, mirrored and recorded, and "for subscriber in self._subscribers"
\* creates the iterator of the list
BeginNotifying ==
    /\ notifier.pc = "idle"
    /\ \E call \in {<<"min_tag_count", 80>>, <<"max_tag_count", 300>>}, dbOk \in BOOLEAN :
        LET r == update_threshold_value(Store, << >>, call[1], call[2], dbOk)
        IN  /\ Commit(r)
            /\ op' = [kind |-> "update_threshold_value", name |-> call[1],
                      value |-> call[2], ret |-> r.ret]
            /\ notifier' = [pc |-> "loop", index |-> 0, item_name |-> call[1],
                            old_value |-> thresholds[call[1]].current_value,
                            new_value |-> call[2], subscribed |-> subscribers]
            /\ UNCHANGED <<subscribers, writers, checkers,
                           decisionVars, engineVars, scoreVars>>

\* the iterator of a list yields the element at its index while the index is
\* below the present length of the list
has_next(list, index) == index < Len(list)

\* one iteration: the callback at the iterator's index is called; a callback
\* that unsubscribes itself removes its first occurrence from the list
NotifyNext ==
    /\ notifier.pc = "loop"
    /\ has_next(subscribers, notifier.index)
    /\ LET subscriber == subscribers[notifier.index + 1]
       IN  /\ notifications' = Append(notifications,
                                      Notification(subscriber, "threshold_update",
                                                   notifier.item_name, notifier.old_value,
                                                   notifier.new_value))
           /\ subscribers' = IF Unsubscribes(subscriber)
                             THEN remove(subscribers, subscriber)
                             ELSE subscribers
    /\ notifier' = [notifier EXCEPT !.index = @ + 1]
    /\ UNCHANGED <<rules, thresholds, changes_history, op, nops, writers, checkers,
                   decisionVars, engineVars, scoreVars>>

\* the iterator is exhausted: _notify_subscribers returns
EndNotifying ==
    /\ notifier.pc = "loop"
    /\ ~has_next(subscribers, notifier.index)
    /\ notifier' = [notifier EXCEPT !.pc = "done"]
    /\ UNCHANGED <<configVars, writers, checkers, decisionVars, engineVars, scoreVars>>

NextNotifier ==
    \/ ThreadSubscribe
    \/ ThreadUnsubscribe
    \/ BeginNotifying
    \/ NotifyNext
    \/ EndNotifying

SpecNotifier == Init /\ [][NextNotifier]_vars

-----------------------------------------------------------------------------
(* ingest_content: the LLM section, one statement group per step             *)

\* llm_decision = evaluate_llm_invocation_decision(quality_checks,
\* llm_invocation_settings); should_run_llm = llm_decision.should_invoke_llm.
\* An exception leaves the try block for its handler.
IngestEvaluate ==
    /\ ingest.pc = "idle"
    /\ \E quality_checks \in IngestResultArgs, st \in SettingsArgs :
        LET llm_decision == evaluate_llm_invocation_decision(quality_checks, st)
        IN  /\ quality_results' = quality_checks
            /\ settings' = st
            /\ decision' = llm_decision
            /\ ingest' = IF llm_decision.raised # "no"
                          THEN [ingest EXCEPT !.pc = "except"]
                          ELSE [ingest EXCEPT !.pc = "decided",
                                              !.should_run_llm = llm_decision.should_invoke_llm]
            /\ UNCHANGED <<configVars, engineVars, scoreVars, threadVars>>

\* the call of the judge and what it leaves: llm_score on a return, the
\* handler on an exception (outcome -1)
judge_called(frame, llm_result) ==
    IF llm_result = -1
    THEN [frame EXCEPT !.pc = "except", !.judge_calls = @ + 1]
    ELSE [frame EXCEPT !.pc = "scored", !.judge_calls = @ + 1, !.llm_score = llm_result]

\* the branch "if should_run_llm" taken whatever should_run_llm holds
IngestCallJudgeAlways ==
    /\ ingest.pc = "decided"
    /\ \E llm_result \in JudgeOutcomes : ingest' = judge_called(ingest, llm_result)
    /\ UNCHANGED <<quality_results, settings, decision,
                   configVars, engineVars, scoreVars, threadVars>>

\* if should_run_llm: llm_result = await llm_judge.check_chunk(...);
\* llm_score = llm_result.confidence_score
IngestCallJudge ==
    /\ ingest.pc = "decided"
    /\ ingest.should_run_llm
    /\ \E llm_result \in JudgeOutcomes : ingest' = judge_called(ingest, llm_result)
    /\ UNCHANGED <<quality_results, settings, decision,
                   configVars, engineVars, scoreVars, threadVars>>

\* else: suggestions from the results of the rules engine, llm_score stays 0
IngestSkipJudge ==
    /\ ingest.pc = "decided"
    /\ ~ingest.should_run_llm
    /\ ingest' = [ingest EXCEPT !.pc = "scored"]
    /\ UNCHANGED <<quality_results, settings, decision,
                   configVars, engineVars, scoreVars, threadVars>>

\* except Exception: the dead letter is stored and llm_score = 0.7
IngestFallbackScoring ==
    /\ ingest.pc = "except"
    /\ ingest' = [ingest EXCEPT !.pc = "scored", !.llm_score = 70]
    /\ UNCHANGED <<quality_results, settings, decision,
                   configVars, engineVars, scoreVars, threadVars>>

NextIngest ==
    \/ IngestEvaluate
    \/ IngestCallJudge
    \/ IngestSkipJudge
    \/ IngestFallbackScoring

SpecIngest == Init /\ [][NextIngest]_vars

-----------------------------------------------------------------------------
(* The rules engine while thresholds of its checks are updated               *)

\* (name, value in hundredths) pairs handed to update_threshold_value between
\* two evaluations: thresholds of two checks, and a value above max_value
LiveThresholdCallArgs ==
    ({"min_tag_count"} \X {0, 200, 6000})
        \cup ({"tag_text_relevance_threshold"} \X {0, 100})

\* requests with no tag and with one tag the text does not mention
LiveChunkArgs ==
    { ChunkIngestRequest(EmptyText, << >>),
      ChunkIngestRequest(ShortText, << <<"data">> >>) }

UpdateLiveThreshold ==
    \E call \in LiveThresholdCallArgs, dbOk \in BOOLEAN :
        LET r == update_threshold_value(Store, subscribers, call[1], call[2], dbOk)
        IN  /\ nops < MaxOps
            /\ Commit(r)
            /\ op' = [kind |-> "update_threshold_value", name |-> call[1],
                      value |-> call[2], ret |-> r.ret]
            /\ UNCHANGED subscribers
            /\ UNCHANGED <<decisionVars, engineVars, scoreVars, threadVars>>

CheckLiveChunk == CheckChunkOf(LiveChunkArgs)

NextLiveThresholds ==
    \/ UpdateLiveThreshold
    \/ CheckLiveChunk

SpecLiveThresholds == Init /\ [][NextLiveThresholds]_vars

-----------------------------------------------------------------------------
(* The validation of check_chunk over the lists a faulty check can leave     *)

\* the result the i-th check appends; the scores tell the results apart
AppendedResult(i) ==
    QualityCheckResult(expected_check_names[i], "pass", Rat(i, 12), FALSE)

AllAppended == [i \in 1..11 |-> AppendedResult(i)]

\* the lists of results collected before the validation: the 11 results of
\* the checks as they are written, and the lists a programming error in one
\* check leaves: its result missing, appended twice, or carrying the
\* check_name of another check or of none
CollectedArgs ==
    { AllAppended }
    \cup { SubSeq(AllAppended, 1, i - 1) \o SubSeq(AllAppended, i + 1, 11) : i \in 1..11 }
    \cup { Append(AllAppended, AppendedResult(i)) : i \in 1..11 }
    \cup UNION { { [AllAppended EXCEPT ![i].check_name = name] :
                      name \in { expected_check_names[j] : j \in (1..11) \ {i} }
                                \cup {"custom_check"} } : i \in 1..11 }

\* check_chunk from its VALIDATION comment on, over a collected list
CheckChunkValidation ==
    /\ nchecks < MaxChecks
    /\ \E collected \in CollectedArgs :
        /\ op' = [kind |-> "check_chunk", collected |-> collected]
        /\ check_results' = [raised |-> FALSE, results |-> validated_results(collected)]
        /\ nchecks' = nchecks + 1
        /\ UNCHANGED <<rules, thresholds, changes_history, subscribers, notifications,
                       nops, content_hashes, now, runtime_overrides, checked_chunk,
                       decisionVars, scoreVars, threadVars>>

NextValidation == CheckChunkValidation

SpecValidation == Init /\ [][NextValidation]_vars

-----------------------------------------------------------------------------
(* Properties of the configuration store *)

InRange(threshold, v) == threshold.min_value <= v /\ v <= threshold.max_value

StoreUnchanged == UNCHANGED <<rules, thresholds, changes_history, notifications>>

\* C2: update_threshold_value(name, v) on a known threshold with v outside
\* [min_value, max_value] returns false, leaves current_value, every rule's
\* threshold_value and the change history as they were, and notifies no
\* subscriber.
C2_OutOfRangeRejected ==
    [][ ( /\ op'.kind = "update_threshold_value"
          /\ op'.name \in DOMAIN thresholds
          /\ ~InRange(thresholds[op'.name], op'.value) )
        => (op'.ret = FALSE /\ StoreUnchanged) ]_vars

\* C3: update_threshold_value(name, v) with v equal to the current value
\* returns true, appends nothing to the change history, notifies no
\* subscriber and leaves every rule and threshold unchanged.
C3_EqualValueIsNoOp ==
    [][ ( /\ op'.kind = "update_threshold_value"
          /\ op'.name \in DOMAIN thresholds
          /\ op'.value = thresholds[op'.name].current_value )
        => (op'.ret = TRUE /\ StoreUnchanged) ]_vars

\* a first call whose value is the current one has returned true and left
\* the history and the notification log empty
C3_Witness ==
    /\ nops = 1
    /\ op.kind = "update_threshold_value"
    /\ op.name \in DOMAIN thresholds
    /\ op.value = default_thresholds[op.name].current_value
    /\ op.ret = TRUE
    /\ thresholds = default_thresholds
    /\ changes_history = << >>
    /\ notifications = << >>

\* C4: in every state reachable through update_threshold_value,
\* bulk_update_thresholds, reset_threshold, import_configuration and
\* update_rule_weight, every threshold satisfies
\* min_value <= current_value <= max_value.
C4_ThresholdsWithinBounds ==
    \A name \in DOMAIN thresholds : InRange(thresholds[name], thresholds[name].current_value)

-----------------------------------------------------------------------------
(* Properties of the decision function *)

Evaluated == decision # NoDecision

AllPass == \A i \in 1..Len(quality_results) : quality_results[i].status = "pass"

NumPass == Cardinality({i \in 1..Len(quality_results) : quality_results[i].status = "pass"})

\* pass_rate > t, >= t, < t for a threshold t in hundredths of a percent:
\* passed/total * 100 against t/100, cross-multiplied; the rate is 0 when
\* there are no results
PassRateTimes100 == IF Len(quality_results) = 0 THEN 0 ELSE NumPass * 10000

TotalOrOne == IF Len(quality_results) = 0 THEN 1 ELSE Len(quality_results)

PassRateLt(t) == PassRateTimes100 < t * TotalOrOne

PassRateGt(t) == PassRateTimes100 > t * TotalOrOne

PassRateGe(t) == ~PassRateLt(t)

\* C5: in Binary mode should_invoke_llm is true exactly when every result is
\* Pass, and the confidence is 1.0 when it is true and 0.0 when it is false.
C5_BinaryDecision ==
    (Evaluated /\ settings.mode = "binary")
        => /\ decision.raised = "no"
           /\ decision.should_invoke_llm = AllPass
           /\ decision.confidence = (IF AllPass THEN RInt(1) ELSE RInt(0))

\* a binary decision over a list whose only non-passing result is a warning
C5_Witness ==
    /\ Evaluated
    /\ settings.mode = "binary"
    /\ Len(quality_results) >= 3
    /\ NumPass = Len(quality_results) - 1
    /\ \E i \in 1..Len(quality_results) : quality_results[i].status = "warning"
    /\ decision.should_invoke_llm = FALSE
    /\ decision.confidence = RInt(0)

RECURSIVE SumWeights(_, _)
SumWeights(I, weights) ==
    IF I = {} THEN 0
    ELSE LET i == CHOOSE j \in I : TRUE
             name == quality_results[i].check_name
         IN  (IF name \in DOMAIN weights THEN weights[name] ELSE 100)
             + SumWeights(I \ {i}, weights)

WeightOfPassed ==
    SumWeights({i \in 1..Len(quality_results) : quality_results[i].status = "pass"},
               settings.rule_weights)

WeightOfAll == SumWeights(1..Len(quality_results), settings.rule_weights)

\* weighted >= t for a threshold t in hundredths; weighted is 0 when the
\* weights sum to nothing
WeightedGe(t) ==
    IF WeightOfAll > 0 THEN WeightOfPassed * 100 >= t * WeightOfAll ELSE 0 >= t

\* C7: in Weighted mode, with weighted = (sum of weights of Pass results) /
\* (sum of weights of all results) and weight 1.0 for a check_name absent
\* from rule_weights, should_invoke_llm is true exactly when
\* weighted >= weighted_threshold.
C7_WeightedDecision ==
    (Evaluated /\ settings.mode = "weighted")
        => /\ decision.raised = "no"
           /\ decision.should_invoke_llm = WeightedGe(settings.weighted_threshold)

\* C8: in Percentage mode, with pass_rate = passed/total x 100 (0 when there
\* are no results), should_invoke_llm is true exactly when
\* pass_rate >= percentage_threshold.
C8_PercentageDecision ==
    (Evaluated /\ settings.mode = "percentage")
        => /\ decision.raised = "no"
           /\ decision.should_invoke_llm = PassRateGe(settings.percentage_threshold)

\* C17: for every list of check results and every settings value (any mode,
\* any thresholds), the decision returned has a confidence in [0, 1].
C17_ConfidenceInUnitInterval ==
    (Evaluated /\ decision.raised = "no")
        => /\ RLe(RInt(0), decision.confidence)
           /\ RLe(decision.confidence, RInt(1))

-----------------------------------------------------------------------------
(* Properties of the weighted score *)

\* the last step was a calculate_weighted_score call: the rules are those it read
Scored == op.kind = "calculate_weighted_score"

\* the weight the claim gives a result: the weight of its rule, 1.0 when the
\* manager has no rule of that name
ClaimedWeight(i) ==
    IF rule_results[i].check_name \in DOMAIN rules
    THEN FromHundredths(rules[rule_results[i].check_name].weight)
    ELSE RInt(1)

RECURSIVE ClaimedTotals(_)
ClaimedTotals(i) ==
    IF i = 0 THEN << RInt(0), RInt(0) >>
    ELSE LET rest == ClaimedTotals(i - 1)
         IN  << RAdd(rest[1], RMul(rule_results[i].confidence_score, ClaimedWeight(i))),
                RAdd(rest[2], ClaimedWeight(i)) >>

\* C19: the weighted score is sum(confidence_i x weight_i) / sum(weight_i)
\* over the results, a result whose check_name has no weight counting with
\* weight 1.0; it is 0.0 when the total weight is zero.
C19_WeightedScore ==
    Scored
        => LET t == ClaimedTotals(Len(rule_results))
           IN  IF t[2] = RInt(0)
               THEN returned_score = RInt(0)
               ELSE returned_score = RDiv(t[1], t[2])

-----------------------------------------------------------------------------
(* Properties of the rules engine *)

\* the fixed catalog of checks, in its order
CatalogOrder ==
    << "empty_tags", "tag_count_validation", "text_quality", "stopwords_detection",
       "spam_patterns", "duplicate_content_detection", "tag_text_relevance",
       "semantic_relevance", "domain_relevance", "tag_specificity",
       "context_coherence" >>

Checked == nchecks > 0

CheckReturns == nchecks' = nchecks + 1 /\ ~check_results'.raised

\* the normalized content of the submission
SubmittedContent == _hash_content(checked_chunk'.document_text)

\* the number of earlier submissions of the same normalized content that are
\* still inside the retention window when the submission arrives
PriorInWindow ==
    IF SubmittedContent \in DOMAIN content_hashes
    THEN Len(SelectSeq(content_hashes[SubmittedContent],
                       LAMBDA e : e.timestamp > now - hash_retention_hours))
    ELSE 0

\* max_duplicate_content_per_hour in hundredths: the configured value, 5 when
\* none is configured
MaxDuplicates ==
    IF "max_duplicate_content_per_hour" \in DOMAIN thresholds
    THEN thresholds["max_duplicate_content_per_hour"].current_value
    ELSE IF "max_duplicate_content_per_hour" \in DOMAIN runtime_overrides
    THEN runtime_overrides["max_duplicate_content_per_hour"]
    ELSE 500

DuplicateStatus == check_results'.results[6].status

EmptyInput ==
    Checked /\ checked_chunk.document_text = << >> /\ checked_chunk.tags = << >>

-----------------------------------------------------------------------------
(* Properties of the configuration store, continued *)

\* a step that is a successful value-changing update_threshold_value call
ValueChangingThresholdUpdate ==
    /\ op'.kind = "update_threshold_value"
    /\ nops' = nops + 1
    /\ op'.ret = TRUE
    /\ op'.name \in DOMAIN thresholds
    /\ thresholds[op'.name].current_value # op'.value

\* C11: after a successful value-changing update_threshold_value(name, v),
\* every rule listed in the threshold's affects_rules that exists in the store
\* has threshold_value = v, and no rule outside affects_rules is changed.
C11_AffectedRulesMirrorValue ==
    [][ValueChangingThresholdUpdate
        => /\ DOMAIN rules' = DOMAIN rules
           /\ \A r \in DOMAIN rules :
                IF r \in thresholds[op'.name].affects_rules
                THEN /\ rules'[r].threshold_value = op'.value
                     /\ rules'[r].weight = rules[r].weight
                ELSE rules'[r] = rules[r]]_vars

\* min_tag_count was moved from 1 to 0.8: empty_tags, which it affects, now
\* carries 0.8 in place of its 1.0
C11_Witness ==
    /\ op.kind = "update_threshold_value"
    /\ op.name = "min_tag_count"
    /\ op.value = 80
    /\ op.ret = TRUE
    /\ thresholds["min_tag_count"].current_value = 80
    /\ rules["empty_tags"].threshold_value = 80
    /\ rules["tag_count_validation"].threshold_value = 80
    /\ rules["text_quality"] = default_rules["text_quality"]

\* a step that is an update_threshold_value call with a new value inside the
\* bounds of a threshold the manager holds
ValidThresholdUpdate ==
    /\ ValueChangingThresholdUpdate
    /\ thresholds[op'.name].min_value <= op'.value
    /\ op'.value <= thresholds[op'.name].max_value

\* a step that is an update_rule_weight call with a new weight in [0.0, 5.0]
\* for a rule the manager holds
ValidWeightUpdate ==
    /\ op'.kind = "update_rule_weight"
    /\ nops' = nops + 1
    /\ op'.name \in DOMAIN rules
    /\ rules[op'.name].weight # op'.value
    /\ 0 <= op'.value /\ op'.value <= 500

\* the database refused the writes of the call: no row reached the history
PersistenceFailed == changes_history' = changes_history

\* every subscriber of the list was called once, in order, with the new value
AllSubscribersNotified ==
    /\ Len(notifications') = Len(notifications) + Len(subscribers)
    /\ SubSeq(notifications', 1, Len(notifications)) = notifications
    /\ \A i \in 1..Len(subscribers) :
         LET n == notifications'[Len(notifications) + i]
         IN  /\ n.subscriber = subscribers[i]
             /\ n.item_name = op'.name
             /\ n.new_value = op'.value

\* C14: when the database fails during an otherwise valid
\* update_threshold_value or update_rule_weight, the call returns True, the
\* new value stays in memory and the subscribers are notified.
C14_PersistenceFailureKeepsValue ==
    [][/\ (ValidThresholdUpdate /\ PersistenceFailed)
            => /\ op'.ret = TRUE
               /\ thresholds'[op'.name].current_value = op'.value
               /\ AllSubscribersNotified
       /\ (ValidWeightUpdate /\ PersistenceFailed)
            => /\ op'.ret = TRUE
               /\ rules'[op'.name].weight = op'.value
               /\ AllSubscribersNotified]_vars

\* update_rule_weight("empty_tags", 5.0) returned True while the database was
\* failing: the weight is 5.0, the history is empty, the subscriber was called
C14_Witness ==
    /\ op.kind = "update_rule_weight"
    /\ op.ret = TRUE
    /\ op.name = "empty_tags"
    /\ op.value = 500
    /\ rules["empty_tags"].weight = 500
    /\ changes_history = << >>
    /\ Len(notifications) = 1
    /\ notifications[1].new_value = 500

\* a step that is an update_rule_weight call with a weight outside [0.0, 5.0]
\* for a rule the manager holds
OutOfRangeWeightUpdate ==
    /\ op'.kind = "update_rule_weight"
    /\ nops' = nops + 1
    /\ op'.name \in DOMAIN rules
    /\ (op'.value < 0 \/ op'.value > 500)

\* C18: in every reachable state every rule has a weight in [0.0, 5.0], and
\* an update_rule_weight call with a weight outside [0.0, 5.0] returns False
\* and leaves the weight and the history unchanged.
C18_WeightsWithinRange ==
    /\ [](\A r \in DOMAIN rules : 0 <= rules[r].weight /\ rules[r].weight <= 500)
    /\ [][OutOfRangeWeightUpdate
            => /\ op'.ret = FALSE
               /\ rules'[op'.name].weight = rules[op'.name].weight
               /\ changes_history' = changes_history]_vars

-----------------------------------------------------------------------------
(* Properties of notification *)

\* the callbacks the step called, oldest first
NewNotifications ==
    SubSeq(notifications', Len(notifications) + 1, Len(notifications'))

\* the number of times the step called a callback
TimesCalled(callback) ==
    Len(SelectSeq(NewNotifications, LAMBDA n : n.subscriber = callback))

\* C13: when a subscriber raises during the notification of a successful
\* update_threshold_value, the call still returns True with the new value
\* committed, and every subscriber of the list is notified of the mutation.
C13_RaisingSubscriberIsolated ==
    [][(/\ ValidThresholdUpdate
        /\ \E i \in 1..Len(subscribers) : Raises(subscribers[i]))
            => /\ op'.ret = TRUE
               /\ thresholds'[op'.name].current_value = op'.value
               /\ AllSubscribersNotified]_vars

\* update_threshold_value returned True with failing_observer subscribed
\* before observer: the value is committed, failing_observer raised, and
\* observer was called after it
C13_Witness ==
    /\ op.kind = "update_threshold_value"
    /\ op.ret = TRUE
    /\ subscribers = << "rules_engine", "failing_observer", "observer" >>
    /\ thresholds[op.name].current_value = op.value
    /\ Len(notifications) = 3
    /\ notifications[2].subscriber = "failing_observer"
    /\ notifications[2].raised
    /\ notifications[3].subscriber = "observer"
    /\ notifications[3].new_value = op.value

\* C20: whatever subscribe_to_changes and unsubscribe_from_changes calls came
\* before, a successful value-changing update_threshold_value calls each
\* subscribed callback at most once, and a rejected or no-op one calls none.
C20_AtMostOncePerMutation ==
    [][(op'.kind = "update_threshold_value" /\ nops' = nops + 1)
            => IF ValidThresholdUpdate
               THEN \A callback \in SubscriberArgs \cup {"rules_engine"} :
                        TimesCalled(callback) <= 1
               ELSE NewNotifications = << >>]_vars

-----------------------------------------------------------------------------
(* Properties of concurrent writers *)

\* thread t has started a mutation and not finished it: an update between its
\* validation and its notification, an import between its first assignment
\* and its history row
InMutation(t) ==
    \/ writers.frames[t].pc \in {"apply", "record", "notify", "record_import"}
    \/ /\ writers.frames[t].pc = "install"
       /\ Len(writers.frames[t].entries) < Len(WriterImportArgs)

\* the rows of the history about one item, oldest first
ItemEvents(item) == SelectSeq(changes_history, LAMBDA e : e.item_name = item)

\* C15: under any interleaving of concurrent writers, while one writer is
\* between the steps of its mutation no other writer applies a value, records
\* history or notifies; and for each item every recorded event's old_value
\* equals the new_value of the event before it.
C15_WritersAtomic ==
    /\ [][\A t \in Threads :
            (InMutation(t) /\ op'.thread # t)
                => UNCHANGED <<rules, thresholds, changes_history, notifications>>]_vars
    /\ [](\A item \in DOMAIN thresholds :
            \A i \in 1..(Len(ItemEvents(item)) - 1) :
                ItemEvents(item)[i + 1].old_value = ItemEvents(item)[i].new_value)

-----------------------------------------------------------------------------
(* Properties of concurrent check_chunk calls *)

\* the stored entries of a content hash made at a time
StoredAt(h, ts) ==
    IF h \in DOMAIN content_hashes
    THEN Len(SelectSeq(content_hashes[h], LAMBDA e : e.timestamp = ts))
    ELSE 0

\* the passing submissions of a content hash made at a time
PassedAt(h, ts) ==
    Len(SelectSeq(checkers.passed, LAMBDA p : p.content_hash = h /\ p.timestamp = ts))

\* C16: for any interleaving of concurrent check_chunk calls, no call fails
\* because of another call's eviction, and the entry of every passing
\* submission that is still inside the retention window is in the store, as
\* it is after running the calls one after another.
C16_HashStoreSynchronized ==
    /\ \A t \in Threads : checkers.frames[t].ret # "KeyError"
    /\ \A i \in 1..Len(checkers.passed) :
         LET p == checkers.passed[i]
         IN  p.timestamp > now - hash_retention_hours
                => StoredAt(p.content_hash, p.timestamp)
                     = PassedAt(p.content_hash, p.timestamp)

-----------------------------------------------------------------------------
(* Properties of the rules engine over an imported configuration *)

-----------------------------------------------------------------------------
(* Properties of the decision function, continued *)

\* C29: evaluate_llm_invocation_decision returns a decision and never raises,
\* for every result list and every settings value, including
\* percentage_threshold = 0, weighted_threshold = 0, range_min_threshold =
\* range_max_threshold and an empty result list.
C29_DecisionNeverRaises ==
    Evaluated => decision.raised = "no"

-----------------------------------------------------------------------------
(* Properties of import_configuration *)

\* C27: an import_configuration call that returns False leaves the rules and
\* the thresholds in memory exactly as they were before the call.
C27_FailedImportLeavesStore ==
    [][(op'.kind = "import_configuration" /\ nops' = nops + 1 /\ op'.ret = FALSE)
        => (rules' = rules /\ thresholds' = thresholds)]_vars

-----------------------------------------------------------------------------
(* Properties of the change log *)

\* a step that is a successful value-changing update_rule_weight call
ValueChangingWeightUpdate ==
    /\ op'.kind = "update_rule_weight"
    /\ nops' = nops + 1
    /\ op'.ret = TRUE
    /\ op'.name \in DOMAIN rules
    /\ rules[op'.name].weight # op'.value

\* a step that is an update call which was rejected or found nothing to change
RejectedOrNoOpUpdate ==
    /\ op'.kind \in {"update_threshold_value", "update_rule_weight"}
    /\ nops' = nops + 1
    /\ ~ValueChangingThresholdUpdate
    /\ ~ValueChangingWeightUpdate

\* the event of the update of the step
UpdateEvent ==
    IF op'.kind = "update_threshold_value"
    THEN [change_type |-> "threshold", item_name |-> op'.name,
          field_name |-> "current_value",
          old_value |-> str(thresholds[op'.name].current_value),
          new_value |-> str(op'.value)]
    ELSE [change_type |-> "rule", item_name |-> op'.name, field_name |-> "weight",
          old_value |-> str(rules[op'.name].weight),
          new_value |-> str(op'.value)]

\* the log of the next state begins with the whole log of this one
EarlierEventsKept ==
    /\ Len(changes_history') >= Len(changes_history)
    /\ SubSeq(changes_history', 1, Len(changes_history)) = changes_history

-----------------------------------------------------------------------------
(* Properties of reset_threshold *)

\* a step that is a reset_threshold call
ResetThresholdCall == op'.kind = "reset_threshold" /\ nops' = nops + 1

\* the rules a threshold names in affects_rules that the manager holds
AffectedRules(name) == thresholds[name].affects_rules \cap DOMAIN rules

\* the step returned True and left the threshold at its default, every other
\* field and every other threshold as they were
ResetToDefault ==
    /\ op'.ret = TRUE
    /\ thresholds' = [thresholds EXCEPT ![op'.name].current_value =
                                           thresholds[op'.name].default_value]

\* C30 as stated: reset_threshold(name) on a known threshold returns True and
\* leaves current_value = default_value, mirrored onto the rules in
\* affects_rules; a second reset returns True, changes nothing and appends
\* no history entry; for an unknown name it returns False and changes nothing.
C30_ResetMirrorsDefault ==
    [][ResetThresholdCall
        => IF op'.name \in DOMAIN thresholds
           THEN /\ ResetToDefault
                /\ \A r \in AffectedRules(op'.name) :
                     rules'[r].threshold_value = thresholds[op'.name].default_value
                /\ (op.kind = "reset_threshold" /\ op.name = op'.name)
                     => StoreUnchanged
           ELSE op'.ret = FALSE /\ StoreUnchanged]_vars

\* C30: reset_threshold(name) on a known threshold returns True and leaves
\* current_value = default_value; when that changed the value, the default is
\* mirrored onto the rules in affects_rules and no other rule changes; when
\* the threshold was at its default already (a second reset is such a call)
\* the call changes nothing and appends no history entry; for an unknown name
\* it returns False and changes nothing.
C30_ResetThreshold ==
    [][ResetThresholdCall
        => IF op'.name \in DOMAIN thresholds
           THEN /\ ResetToDefault
                /\ IF thresholds[op'.name].current_value = thresholds[op'.name].default_value
                   THEN StoreUnchanged
                   ELSE \A r \in DOMAIN rules :
                          IF r \in AffectedRules(op'.name)
                          THEN /\ rules'[r].threshold_value = thresholds[op'.name].default_value
                               /\ rules'[r].weight = rules[r].weight
                          ELSE rules'[r] = rules[r]
                /\ (op.kind = "reset_threshold" /\ op.name = op'.name)
                     => StoreUnchanged
           ELSE op'.ret = FALSE /\ StoreUnchanged]_vars

\* min_tag_count was moved to 0.8, reset, and reset again: the threshold and
\* the two rules it affects carry the default 1.0, and the log holds the
\* update and the first reset only
C30_Witness ==
    /\ nops = 3
    /\ op.kind = "reset_threshold" /\ op.name = "min_tag_count" /\ op.ret = TRUE
    /\ thresholds = default_thresholds
    /\ rules["empty_tags"].threshold_value = 100
    /\ rules["tag_count_validation"].threshold_value = 100
    /\ Len(changes_history) = 2
    /\ changes_history[1].new_value = str(80)
    /\ changes_history[2].old_value = str(80)
    /\ changes_history[2].new_value = str(100)

-----------------------------------------------------------------------------
(* Properties of the Range mode confidence *)

\* the decision for a list of the same length of which k results pass
DecisionWith(k) ==
    evaluate_llm_invocation_decision(
        ResultList(Len(quality_results), 1..k, "fail"), settings)

InGrayZone(d) == d.raised = "no" /\ d.should_invoke_llm

\* |pass rate - (range_min + range_max)/2| of k passing results, times
\* twice the length of the list
DistanceFromMidpoint(k) ==
    Abs(2 * 10000 * k
        - (settings.range_min_threshold + settings.range_max_threshold)
            * Len(quality_results))

\* C23: in Range mode, for pass rates inside the gray zone, the confidence is
\* maximal at the midpoint (range_min + range_max)/2 and strictly lower for
\* pass rates closer to either edge: of two pass rates of the gray zone, the
\* one farther from the midpoint has the strictly lower confidence.
C23_ConfidencePeaksAtMidpoint ==
    (Evaluated /\ settings.mode = "range" /\ InGrayZone(decision))
        => \A k \in 0..Len(quality_results) :
             ( /\ InGrayZone(DecisionWith(k))
               /\ DistanceFromMidpoint(k) > DistanceFromMidpoint(NumPass) )
                => RLt(DecisionWith(k).confidence, decision.confidence)

-----------------------------------------------------------------------------
(* Properties of duplicate_content_detection *)

\* the entries stored for the submitted content that are still inside the
\* retention window when the submission arrives
PriorEntries ==
    IF SubmittedContent \in DOMAIN content_hashes
    THEN SelectSeq(content_hashes[SubmittedContent],
                   LAMBDA e : e.timestamp > now - hash_retention_hours)
    ELSE << >>

\* the entries stored for the submitted content after the call
StoredEntries ==
    IF SubmittedContent \in DOMAIN content_hashes'
    THEN content_hashes'[SubmittedContent]
    ELSE << >>

\* a failing submission is not recorded, a passing one is
RecordedWhenPassing ==
    /\ DuplicateStatus = "fail" => StoredEntries = PriorEntries
    /\ DuplicateStatus = "pass"
         => StoredEntries = Append(PriorEntries,
                                   [timestamp |-> now,
                                    connector |-> checked_chunk'.source_connector])

\* no entry of the store is older than the retention window
NoEntryOlderThanWindow ==
    \A h \in DOMAIN content_hashes' :
        /\ content_hashes'[h] # << >>
        /\ \A i \in 1..Len(content_hashes'[h]) :
             content_hashes'[h][i].timestamp > now - hash_retention_hours

\* C25 as stated: duplicate_content_detection returns Fail exactly when the
\* number of prior occurrences of the content hash still inside the retention
\* window is >= max_duplicate_content_per_hour; a failing submission is not
\* recorded, a passing one is; after every call no stored entry is older than
\* the window.
C25_FailAtMaximum ==
    [][CheckReturns
        => /\ DuplicateStatus = "fail" <=> PriorInWindow * 100 >= MaxDuplicates
           /\ RecordedWhenPassing
           /\ NoEntryOlderThanWindow]_vars

\* C25: duplicate_content_detection returns Fail exactly when the content
\* hash has at least one prior occurrence still inside the retention window
\* and the number of those is >= max_duplicate_content_per_hour; a failing
\* submission is not recorded, a passing one is; after every call no stored
\* entry is older than the window.
C25_FailAtMaximumOfPrior ==
    [][CheckReturns
        => /\ DuplicateStatus = "fail"
                <=> (PriorInWindow >= 1 /\ PriorInWindow * 100 >= MaxDuplicates)
           /\ RecordedWhenPassing
           /\ NoEntryOlderThanWindow]_vars

\* with a maximum of one occurrence, a submission made 24 hours after the
\* first one passed: the first entry had left the window and the store holds
\* the new entry only
C25_Witness ==
    /\ nchecks = 2
    /\ now = hash_retention_hours
    /\ "max_duplicate_content_per_hour" \in DOMAIN runtime_overrides
    /\ runtime_overrides["max_duplicate_content_per_hour"] = 100
    /\ ~check_results.raised
    /\ check_results.results[6].status = "pass"
    /\ DOMAIN content_hashes = {_hash_content(checked_chunk.document_text)}
    /\ Len(content_hashes[_hash_content(checked_chunk.document_text)]) = 1
    /\ content_hashes[_hash_content(checked_chunk.document_text)][1].timestamp = now

-----------------------------------------------------------------------------
(* Properties of the validation of check_chunk *)

\* the collected results violate the catalog invariant: their number is not
\* 11, a check_name is repeated, or the names are not those of the catalog
ViolatesCatalogInvariant(results) ==
    \/ Len(results) # 11
    \/ \E i, j \in 1..Len(results) : i < j /\ results[i].check_name = results[j].check_name
    \/ { results[i].check_name : i \in 1..Len(results) }
         # { expected_check_names[i] : i \in 1..11 }

\* the first result of the list that carries the name
FirstOccurrence(results, name) ==
    results[CHOOSE i \in 1..Len(results) :
              /\ results[i].check_name = name
              /\ \A j \in 1..(i - 1) : results[j].check_name # name]

\* no name occurs twice in the returned list, and every result returned under
\* a name of the collected list is the first one collected under that name
FirstOccurrencesKept(collected, returned) ==
    /\ \A i, j \in 1..Len(returned) :
         i < j => returned[i].check_name # returned[j].check_name
    /\ \A i \in 1..Len(collected) :
         \E j \in 1..Len(returned) :
            returned[j] = FirstOccurrence(collected, collected[i].check_name)

-----------------------------------------------------------------------------
(* Properties of the rules engine under threshold updates *)

\* the last call into the manager was update_threshold_value(name, v), and it
\* returned True
LastUpdated(name) ==
    /\ op.kind = "update_threshold_value"
    /\ op.ret = TRUE
    /\ op.name = name

TagCountResult == check_results'.results[2]

TagTextRelevanceResult == check_results'.results[7]

\* C21: after update_threshold_value(name, v) returned True, the next
\* check_chunk evaluation of a check that reads the threshold compares
\* against v: tag_count_validation fails for too few tags exactly when
\* tag_count < v after an update of min_tag_count, and tag_text_relevance
\* fails exactly when its score < v after an update of
\* tag_text_relevance_threshold.
C21_NextEvaluationReadsNewValue ==
    [][CheckReturns
        => /\ LastUpdated("min_tag_count")
                => ( ( /\ TagCountResult.status = "fail"
                       /\ TagCountResult.confidence_score = Rat(3, 10) )
                     <=> Len(checked_chunk'.tags) * 100 < op.value )
           /\ (LastUpdated("tag_text_relevance_threshold") /\ checked_chunk'.tags # << >>)
                => ( TagTextRelevanceResult.status = "fail"
                     <=> RLt(TagTextRelevanceResult.confidence_score,
                             FromHundredths(op.value)) )]_vars

\* a request with one tag was evaluated, min_tag_count was moved from 1 to 2,
\* and the evaluation of the same request that followed failed
\* tag_count_validation for too few tags
C21_Witness ==
    /\ nchecks = 2
    /\ nops = 1
    /\ LastUpdated("min_tag_count")
    /\ op.value = 200
    /\ Len(checked_chunk.tags) = 1
    /\ _hash_content(checked_chunk.document_text) \in DOMAIN content_hashes
    /\ Len(content_hashes[_hash_content(checked_chunk.document_text)]) = 2
    /\ ~check_results.raised
    /\ check_results.results[2].status = "fail"
    /\ check_results.results[2].confidence_score = Rat(3, 10)

-----------------------------------------------------------------------------
(* Properties of the ingestion pipeline *)

\* C22: in the ingestion pipeline llm_judge.check_chunk is called for a record
\* only after evaluate_llm_invocation_decision has returned
\* should_invoke_llm = true for that record; when the decision is false or
\* the evaluation raised, the judge is never called.
C22_JudgeOnlyAfterPositiveDecision ==
    /\ [][ingest'.judge_calls # ingest.judge_calls
            => /\ Evaluated
               /\ decision.raised = "no"
               /\ decision.should_invoke_llm
               /\ ingest'.judge_calls = 1]_vars
    /\ []( ( /\ Evaluated
             /\ (decision.raised # "no" \/ ~decision.should_invoke_llm) )
           => ingest.judge_calls = 0 )

\* a record whose pass rate lies in the gray zone of Range mode: the judge
\* was called once and its score taken
C22_Witness ==
    /\ ingest.pc = "scored"
    /\ settings.mode = "range"
    /\ decision.raised = "no"
    /\ decision.should_invoke_llm
    /\ ingest.judge_calls = 1
    /\ ingest.llm_score = 55

-----------------------------------------------------------------------------
(* Properties of the notification loop *)

\* C28: every callback that is subscribed when a successful mutation starts
\* notifying receives that notification, even when a callback calls
\* unsubscribe_from_changes or subscribe_to_changes, or another thread does,
\* while the loop is running.
C28_SubscribedAtStartNotified ==
    notifier.pc = "done"
        => \A i \in 1..Len(notifier.subscribed) :
             \E j \in 1..Len(notifications) :
                /\ notifications[j].subscriber = notifier.subscribed[i]
                /\ notifications[j].item_name = notifier.item_name
                /\ notifications[j].new_value = notifier.new_value

=============================================================================
